---- MODULE Spec2Model ----
(***************************************************************************)
(* Lifecycle model of wasm-cel: the Go runtime tables of internal/cel      *)
(* (envs, programs, functionRefs), the callback registry of cmd/wasm and   *)
(* the TypeScript wrappers Env / Program of lib/index.ts.                  *)
(*                                                                         *)
(* Handles are modelled by the number the code formats into them:          *)
(* "env_3" is 3, "prg_2" is 2, and an implementation id is the value of    *)
(* implIDCounter that lib/index.ts puts into it.                           *)
(***************************************************************************)
EXTENDS Integers, Sequences, FiniteSets, TLC

\* ------------------------------------------------------------------ bounds
MaxEnvs == 2
MaxEnvsWithOptions == 1
MaxProgs == 2
MaxOpts == 1
MaxCompilations == 2
MaxCalls == 2
MaxInitCalls == 4
MaxTypeDepth == 2

\* ------------------------------------------------------------ input domains
\* the functions option of Env.new: lists of (name, host implementation
\* (a, b) => a + b + impl); the last list declares one name twice
FunctionLists ==
    {<<>>,
     <<[name |-> "add", impl |-> 0]>>,
     <<[name |-> "add", impl |-> 1], [name |-> "sub", impl |-> 1]>>,
     <<[name |-> "add", impl |-> 0], [name |-> "add", impl |-> 1]>>}
SmallFunctionLists == {<<>>, <<[name |-> "add", impl |-> 0]>>}
Exprs == {"lit", "bad", "add", "sub"}
OptionTypes == {[type |-> "OptionalTypes"], [type |-> "Bogus"]}

\* host validator functions: each raises one issue on every node of one type
\* (or on every node), with or without echoing the location it finds in
\* nodeData; the broken one returns a function, which JSON.stringify renders
\* as undefined
ValidatorFunctions ==
    [error   |-> [on |-> "call", severity |-> "error", message |-> <<"forbidden">>, located |-> FALSE, returns |-> "issues"],
     warning |-> [on |-> "call", severity |-> "warning", message |-> <<"deprecated">>, located |-> FALSE, returns |-> "issues"],
     info    |-> [on |-> "call", severity |-> "info", message |-> <<"note">>, located |-> TRUE, returns |-> "issues"],
     literal |-> [on |-> "literal", severity |-> "warning", message |-> <<"magic number">>, located |-> TRUE, returns |-> "issues"],
     broken  |-> [on |-> "every", severity |-> "info", message |-> <<"unseen">>, located |-> FALSE, returns |-> "function"]]

\* the validators arrays of Options.astValidators
ValidatorLists ==
    {<<ValidatorFunctions.error>>,
     <<ValidatorFunctions.warning>>,
     <<ValidatorFunctions.info>>,
     <<ValidatorFunctions.literal, ValidatorFunctions.error>>,
     <<ValidatorFunctions.warning, ValidatorFunctions.info>>}

\* Options.astValidators({validators, options: {failOnWarning, includeWarnings}})
ValidatorOptions ==
    {[type |-> "ASTValidators", validators |-> v, failOnWarning |-> f, includeWarnings |-> i] :
        v \in ValidatorLists, f \in BOOLEAN, i \in BOOLEAN}

\* host validator functions that raise one located issue on every node
TraceFunctions ==
    [first  |-> [on |-> "every", severity |-> "info", message |-> <<"first">>, located |-> TRUE, returns |-> "issues"],
     second |-> [on |-> "every", severity |-> "warning", message |-> <<"second">>, located |-> TRUE, returns |-> "issues"]]

TraceOptions ==
    {[type |-> "ASTValidators", validators |-> v, failOnWarning |-> f, includeWarnings |-> i] :
        v \in {<<TraceFunctions.first>>, <<TraceFunctions.second>>,
               <<TraceFunctions.first, TraceFunctions.second>>,
               <<TraceFunctions.second, TraceFunctions.first>>},
        f \in BOOLEAN, i \in BOOLEAN}

\* an implementation id that no registerCELFunction call has registered
MissingID == -9

\* validator options whose callback fails: an option object whose function
\* returns no JSON value, and a plain configuration (passed through by
\* _extendWithOptions) that names an id that was never registered
FailingOptions ==
    {[type |-> "ASTValidators", validators |-> v, failOnWarning |-> f, includeWarnings |-> i] :
        v \in {<<ValidatorFunctions.broken>>,
               <<ValidatorFunctions.warning, ValidatorFunctions.broken>>},
        f \in BOOLEAN, i \in BOOLEAN}
    \cup
    {[type |-> "ASTValidators", validatorFunctionIds |-> <<MissingID>>,
      failOnWarning |-> f, includeWarnings |-> i] : f \in BOOLEAN, i \in BOOLEAN}

NoError == "nil"
NoValue == -1
NoCall == 0
\* the description of a source made by env.Compile, "<input>": no
\* compilation context is ever registered under it
InputDescription == 0

\* ---------------------------------------------------------------- state
VARIABLES envs, programs, functionRefs, envIDCounter, programIDCounter,
          compilationIDCounter, compilationRegistry,
          registry, implIDCounter, envObjs, progObjs, hist, out, inProgress,
          isInitialized, initPromise

vars == <<envs, programs, functionRefs, envIDCounter, programIDCounter,
          compilationIDCounter, compilationRegistry,
          registry, implIDCounter, envObjs, progObjs, hist, out, inProgress>>

\* ---------------------------------------------------------------- helpers
Remove(f, k) == [x \in (DOMAIN f) \ {k} |-> f[x]]

Put(f, k, v) == [x \in (DOMAIN f) \cup {k} |-> IF x = k THEN v ELSE f[x]]

Range(s) == {s[i] : i \in 1..Len(s)}

Result(fn, err, val, cb) == [fn |-> fn, error |-> err, value |-> val, cb |-> cb]

\* what the caller of the last call saw (err, val) and what the call did:
\* rt the runtime functions it called, rterr the error the last of them
\* returned, cb the host callbacks invoked
Outcome(op, err, val, rt, rterr, cb) ==
    [op |-> op, err |-> err, val |-> val, rt |-> rt, rterr |-> rterr, cb |-> cb]

NoResult == Result("none", NoError, NoValue, <<>>)

OptionLists == UNION {[1..n -> OptionTypes] : n \in 0..MaxOpts}

\* ------------------------------------------------------- engine (black box)
\* cel.NewEnv rejects two declarations of one function name with the same
\* signature (every function here is declared (int, int) -> int).
NewEnvOK(funcDefs) ==
    \A i, j \in 1..Len(funcDefs) : funcDefs[i].name = funcDefs[j].name => i = j

\* wasmenv.CreateOptionsFromJSONWithEnvID: the loop returns an error at the
\* first option type the registry does not know.
CreateOptionsOK(options) == \A i \in 1..Len(options) : options[i].type # "Bogus"

\* env.Compile: "bad" does not parse, a call type-checks only when the
\* environment declares the function, the literal expression always does.
CheckOK(env, exprStr) ==
    \/ exprStr = "lit"
    \/ \E i \in 1..Len(env.funcs) : env.funcs[i].name = exprStr

\* env.Program: the overload binding closes over the implementation id.
BoundCall(env, exprStr) ==
    IF exprStr = "lit" THEN NoCall
    ELSE (CHOOSE f \in Range(env.funcs) : f.name = exprStr).implID

\* ast.Expr, by kind: the id and the children the accessors of the kind
\* return.  A call without a target has target = <<>> (Target() is nil).
Literal(id) == [id |-> id, kind |-> "literal"]

Ident(id) == [id |-> id, kind |-> "ident"]

Call(id, target, args) == [id |-> id, kind |-> "call", target |-> target, args |-> args]

Select(id, operand) == [id |-> id, kind |-> "select", operand |-> operand]

List(id, elements) == [id |-> id, kind |-> "list", elements |-> elements]

MapEntry(key, value) == [kind |-> "mapEntry", key |-> key, value |-> value]

Map(id, entries) == [id |-> id, kind |-> "map", entries |-> entries]

StructField(value) == [kind |-> "structField", value |-> value]

Struct(id, fields) == [id |-> id, kind |-> "struct", fields |-> fields]

Comprehension(id, iterRange, accuInit, loopCondition, loopStep, result) ==
    [id |-> id, kind |-> "comprehension", iterRange |-> iterRange,
     accuInit |-> accuInit, loopCondition |-> loopCondition,
     loopStep |-> loopStep, result |-> result]

\* The checked AST of an expression and its source info, the 0-based column
\* of every node id.  Every expression of Exprs is a call without a target
\* on two integer literals ("10 + 20", "add(10, 20)").
AST(exprStr) ==
    [expr |-> Call(1, <<>>, <<Literal(2), Literal(3)>>),
     sourceInfo |-> (1 :> 3) @@ (2 :> IF exprStr = "lit" THEN 0 ELSE 4)
                        @@ (3 :> IF exprStr = "lit" THEN 5 ELSE 8)]

\* Checked ASTs of every kind, with the ids numbered in pre-order (the node,
\* then the target before the arguments, the operand, the elements, the
\* key before the value of each entry, the field values, and iterRange,
\* accuInit, loopCondition, loopStep, result); size is the number of
\* nodes and the column of a node is its id.
SampleExprs ==
    {[size |-> 1, expr |-> Literal(1)],
     [size |-> 1, expr |-> Call(1, <<>>, <<>>)],
     [size |-> 3, expr |-> Call(1, <<>>, <<Ident(2), Literal(3)>>)],
     [size |-> 4, expr |-> Call(1, <<Ident(2)>>, <<Literal(3), Literal(4)>>)],
     [size |-> 2, expr |-> Select(1, Ident(2))],
     [size |-> 3, expr |-> Select(1, Select(2, Ident(3)))],
     [size |-> 1, expr |-> List(1, <<>>)],
     [size |-> 4, expr |-> List(1, <<Literal(2), Ident(3), Literal(4)>>)],
     [size |-> 5, expr |-> Map(1, <<MapEntry(Literal(2), Ident(3)),
                                    MapEntry(Literal(4), Literal(5))>>)],
     [size |-> 3, expr |-> Struct(1, <<StructField(Literal(2)), StructField(Ident(3))>>)],
     [size |-> 9, expr |-> Comprehension(1, List(2, <<Literal(3)>>), Literal(4), Literal(5),
                                         Call(6, <<>>, <<Ident(7), Ident(8)>>), Ident(9))],
     [size |-> 7, expr |-> Struct(1, <<StructField(
                               Comprehension(2, Ident(3), Literal(4), Literal(5),
                                             Literal(6), Ident(7)))>>)],
     [size |-> 10, expr |-> Call(1, <<Call(2, <<Ident(3)>>, <<Literal(4)>>)>>,
                                 <<List(5, <<Literal(6)>>),
                                   Map(7, <<MapEntry(Ident(8), Select(9, Ident(10)))>>)>>)]}

SampleASTs ==
    {[expr |-> a.expr, size |-> a.size, sourceInfo |-> [i \in 1..a.size |-> i]] :
        a \in SampleExprs}

getNodeType(expr) ==
    IF expr.kind \in {"call", "select", "ident", "literal", "list", "map",
                      "struct", "comprehension"}
    THEN expr.kind
    ELSE "unknown"

\* extractNodeData: data["location"] has the column converted to 1-based
extractNodeData(expr, sourceInfo) ==
    [id |-> expr.id, location |-> [line |-> 1, column |-> sourceInfo[expr.id] + 1]]

\* the engine's location of an error reported at a node id
LocationOfID(exprStr, nodeID) ==
    [line |-> 1, column |-> AST(exprStr).sourceInfo[nodeID]]

\* the ASTValidators options of an environment, in the order applied
ValidatorsOf(env) == SelectSeq(env.opts, LAMBDA o : o.type = "ASTValidators")

\* a host validator function called with (nodeType, nodeData, context)
HostValidator(fn, nodeType, nodeData) ==
    IF fn.on \in {nodeType, "every"}
    THEN <<[severity |-> fn.severity, message |-> fn.message,
            location |-> IF fn.located THEN {nodeData.location} ELSE {}]>>
    ELSE <<>>

\* ------------------------------------------------------- runtime state
\* The Go side as one record, so that a handler of lib/index.ts that makes
\* several runtime calls can thread it through them.
G == [envs |-> envs, programs |-> programs, functionRefs |-> functionRefs,
      envIDCounter |-> envIDCounter, programIDCounter |-> programIDCounter,
      compilationIDCounter |-> compilationIDCounter,
      compilationRegistry |-> compilationRegistry,
      registry |-> registry, hist |-> hist, res |-> NoResult]

SetG(g) ==
    /\ envs' = g.envs
    /\ programs' = g.programs
    /\ functionRefs' = g.functionRefs
    /\ envIDCounter' = g.envIDCounter
    /\ programIDCounter' = g.programIDCounter
    /\ compilationIDCounter' = g.compilationIDCounter
    /\ compilationRegistry' = g.compilationRegistry
    /\ registry' = g.registry
    /\ hist' = g.hist
    /\ UNCHANGED <<isInitialized, initPromise>>

Return(g, fn, err, val, cb) == [g EXCEPT !.res = Result(fn, err, val, cb)]

\* the result map of CompileDetailed, which has "issues" on every path
ReturnDetailed(g, err, val, issues) ==
    [g EXCEPT !.res = [fn |-> "compileExprDetailed", error |-> err, value |-> val,
                       cb |-> <<>>, issues |-> issues]]

\* hist is the history of the successful calls, kept to state the claims:
\* owner[implID] the environment CreateEnv tracked the id for, envDestroyed
\* and programDestroyed the handles DestroyEnv / DestroyProgram succeeded on,
\* validatorOf[implID] the environment whose Env object registered the
\* validator callback implID, raced whether a step of a DestroyProgram call
\* was ever taken while another call was between its first and last step.

\* ------------------------------------------------- cmd/wasm callback bridge
registerFunction(g, implID, fn) == [g EXCEPT !.registry = Put(@, implID, fn)]

UnregisterFunction(g, implID) == [g EXCEPT !.registry = Remove(@, implID)]

\* ------------------------------------------------------ internal/cel: Go
\* slip: "< 0" for "<= 0", so an unused function is never unregistered
unregisterFunctionIfUnused_Strict(g, implID) ==
    IF implID \notin DOMAIN g.functionRefs THEN g
    ELSE IF g.functionRefs[implID].refCount < 0
         THEN [UnregisterFunction(g, implID) EXCEPT !.functionRefs = Remove(@, implID)]
         ELSE g

unregisterFunctionIfUnused(g, implID) ==
    IF implID \notin DOMAIN g.functionRefs THEN g
    ELSE IF g.functionRefs[implID].refCount <= 0
         THEN [UnregisterFunction(g, implID) EXCEPT !.functionRefs = Remove(@, implID)]
         ELSE g

\* for _, implID := range envState.implIDs { ref.refCount++ }
RECURSIVE IncrementAll(_, _)
IncrementAll(g, implIDs) ==
    IF implIDs = <<>> THEN g
    ELSE LET implID == Head(implIDs)
             next == IF implID \in DOMAIN g.functionRefs
                     THEN [g EXCEPT !.functionRefs[implID].refCount = @ + 1]
                     ELSE g
         IN IncrementAll(next, Tail(implIDs))

\* for _, implID := range envState.implIDs { ref.refCount--; unregisterFunctionIfUnused }
RECURSIVE DecrementAll(_, _)
DecrementAll(g, implIDs) ==
    IF implIDs = <<>> THEN g
    ELSE LET implID == Head(implIDs)
             next == IF implID \in DOMAIN g.functionRefs
                     THEN unregisterFunctionIfUnused(
                              [g EXCEPT !.functionRefs[implID].refCount = @ - 1], implID)
                     ELSE g
         IN DecrementAll(next, Tail(implIDs))

\* for _, implID := range envState.implIDs { unregisterFunctionIfUnused(implID) }
RECURSIVE UnregisterAll(_, _)
UnregisterAll(g, implIDs) ==
    IF implIDs = <<>> THEN g
    ELSE UnregisterAll(unregisterFunctionIfUnused(g, Head(implIDs)), Tail(implIDs))

\* for _, funcDef := range funcDefs { functionRefs[funcDef.ImplID] = {0, envID} }
\* hist.owner remembers the same assignment after the entry is deleted.
RECURSIVE InitRefs(_, _, _)
InitRefs(g, funcDefs, envID) ==
    IF funcDefs = <<>> THEN g
    ELSE LET implID == Head(funcDefs).implID IN
         InitRefs([g EXCEPT !.functionRefs = Put(@, implID, [refCount |-> 0, envID |-> envID]),
                            !.hist.owner = Put(@, implID, envID)],
                  Tail(funcDefs), envID)

\* slip: the reference counts are not consulted
canCleanupImmediately_Always(g, implIDs) == TRUE

canCleanupImmediately(g, implIDs) ==
    \A i \in 1..Len(implIDs) :
        implIDs[i] \in DOMAIN g.functionRefs => ~(g.functionRefs[implIDs[i]].refCount > 0)

hasRemainingPrograms(g, envID) == \E p \in DOMAIN g.programs : g.programs[p].envID = envID

\* slip: the handle is numbered by the size of the table
CreateEnvWithOptions_HandleFromTableSize(g, funcDefs, options) ==
    LET envID == Cardinality(DOMAIN g.envs) + 1
        g1 == [g EXCEPT !.envIDCounter = @ + 1]
    IN IF ~CreateOptionsOK(options)
       THEN Return(g1, "createEnv", "failed to create environment options", NoValue, <<>>)
       ELSE IF ~NewEnvOK(funcDefs)
       THEN Return(g1, "createEnv", "failed to create CEL environment", NoValue, <<>>)
       ELSE LET g2 == InitRefs(g1, funcDefs, envID)
                g3 == [g2 EXCEPT !.envs = Put(@, envID,
                           [env |-> [funcs |-> funcDefs, opts |-> options],
                            implIDs |-> [i \in 1..Len(funcDefs) |-> funcDefs[i].implID],
                            destroyed |-> FALSE])]
            IN Return(g3, "createEnv", NoError, envID, <<>>)

\* slip: the reference counts are initialised before the environment is built
CreateEnvWithOptions_RefsBeforeBuild(g, funcDefs, options) ==
    LET envID == g.envIDCounter + 1
        g1 == [g EXCEPT !.envIDCounter = envID]
        g2 == InitRefs(g1, funcDefs, envID)
    IN IF ~CreateOptionsOK(options)
       THEN Return(g1, "createEnv", "failed to create environment options", NoValue, <<>>)
       ELSE IF ~NewEnvOK(funcDefs)
       THEN Return(g2, "createEnv", "failed to create CEL environment", NoValue, <<>>)
       ELSE LET g3 == [g2 EXCEPT !.envs = Put(@, envID,
                           [env |-> [funcs |-> funcDefs, opts |-> options],
                            implIDs |-> [i \in 1..Len(funcDefs) |-> funcDefs[i].implID],
                            destroyed |-> FALSE])]
            IN Return(g3, "createEnv", NoError, envID, <<>>)

CreateEnvWithOptions(g, funcDefs, options) ==
    LET envID == g.envIDCounter + 1
        g1 == [g EXCEPT !.envIDCounter = envID]
    IN IF ~CreateOptionsOK(options)
       THEN Return(g1, "createEnv", "failed to create environment options", NoValue, <<>>)
       ELSE IF ~NewEnvOK(funcDefs)
       THEN Return(g1, "createEnv", "failed to create CEL environment", NoValue, <<>>)
       ELSE LET g2 == InitRefs(g1, funcDefs, envID)
                g3 == [g2 EXCEPT !.envs = Put(@, envID,
                           [env |-> [funcs |-> funcDefs, opts |-> options],
                            implIDs |-> [i \in 1..Len(funcDefs) |-> funcDefs[i].implID],
                            destroyed |-> FALSE])]
            IN Return(g3, "createEnv", NoError, envID, <<>>)

CreateEnv(g, funcDefs) == CreateEnvWithOptions(g, funcDefs, <<>>)

\* slip: the options are applied one by one, up to the first that fails
ExtendEnv_Partial(g, envID, options) ==
    IF envID \notin DOMAIN g.envs
    THEN Return(g, "extendEnv", "environment not found", NoValue, <<>>)
    ELSE IF g.envs[envID].destroyed
    THEN Return(g, "extendEnv", "environment has been destroyed", NoValue, <<>>)
    ELSE IF ~CreateOptionsOK(options)
    THEN LET first == CHOOSE i \in 1..Len(options) :
                          /\ options[i].type = "Bogus"
                          /\ \A j \in 1..(i - 1) : options[j].type # "Bogus"
         IN Return([g EXCEPT !.envs[envID].env.opts = @ \o SubSeq(options, 1, first - 1)],
                   "extendEnv", "failed to create environment options", NoValue, <<>>)
    ELSE Return([g EXCEPT !.envs[envID].env.opts = @ \o options],
                "extendEnv", NoError, NoValue, <<>>)

\* slip: envState.env = newEnv is left out
ExtendEnv_NotStored(g, envID, options) ==
    IF envID \notin DOMAIN g.envs
    THEN Return(g, "extendEnv", "environment not found", NoValue, <<>>)
    ELSE IF g.envs[envID].destroyed
    THEN Return(g, "extendEnv", "environment has been destroyed", NoValue, <<>>)
    ELSE IF ~CreateOptionsOK(options)
    THEN Return(g, "extendEnv", "failed to create environment options", NoValue, <<>>)
    ELSE Return(g, "extendEnv", NoError, NoValue, <<>>)

ExtendEnv(g, envID, options) ==
    IF envID \notin DOMAIN g.envs
    THEN Return(g, "extendEnv", "environment not found", NoValue, <<>>)
    ELSE IF g.envs[envID].destroyed
    THEN Return(g, "extendEnv", "environment has been destroyed", NoValue, <<>>)
    ELSE IF ~CreateOptionsOK(options)
    THEN Return(g, "extendEnv", "failed to create environment options", NoValue, <<>>)
    ELSE Return([g EXCEPT !.envs[envID].env.opts = @ \o options],
                "extendEnv", NoError, NoValue, <<>>)

RegisterCompilationContext(g, compilationID, collector) ==
    [g EXCEPT !.compilationRegistry = Put(@, compilationID, collector)]

UnregisterCompilationContext(g, compilationID) ==
    [g EXCEPT !.compilationRegistry = Remove(@, compilationID)]

\* ---------------------------------- internal/options: JSASTValidator
\* jsFunctionCaller.CallJSFunction(functionId, [nodeType, nodeData, jsContext])
CallJSFunction(g, implID, nodeType, nodeData) ==
    IF implID \notin DOMAIN g.registry
    THEN [err |-> "function implementation not found", issues |-> <<>>]
    ELSE IF g.registry[implID].returns = "function"
    THEN [err |-> "failed to parse function result", issues |-> <<>>]
    ELSE [err |-> NoError, issues |-> HostValidator(g.registry[implID], nodeType, nodeData)]

\* slip: the error of CallJSFunction is dropped
RECURSIVE CallValidators_SwallowsFailure(_, _, _, _)
CallValidators_SwallowsFailure(g, functionIds, expr, sourceInfo) ==
    IF functionIds = <<>> THEN <<>>
    ELSE LET r == CallJSFunction(g, Head(functionIds), getNodeType(expr),
                                 extractNodeData(expr, sourceInfo))
             added == [k \in 1..Len(r.issues) |->
                          [severity |-> r.issues[k].severity,
                           message |-> r.issues[k].message,
                           location |-> r.issues[k].location,
                           nodeID |-> expr.id]]
         IN added \o CallValidators_SwallowsFailure(g, Tail(functionIds), expr, sourceInfo)

\* for _, functionId := range v.validatorFunctionIds { ... ctx.AddIssueWithID }
RECURSIVE CallValidators(_, _, _, _)
CallValidators(g, functionIds, expr, sourceInfo) ==
    IF functionIds = <<>> THEN <<>>
    ELSE LET r == CallJSFunction(g, Head(functionIds), getNodeType(expr),
                                 extractNodeData(expr, sourceInfo))
             added == IF r.err # NoError
                      THEN <<[severity |-> "error",
                              message |-> <<"Validator function", Head(functionIds),
                                            "failed", r.err>>,
                              location |-> {}, nodeID |-> expr.id]>>
                      ELSE [k \in 1..Len(r.issues) |->
                               [severity |-> r.issues[k].severity,
                                message |-> r.issues[k].message,
                                location |-> r.issues[k].location,
                                nodeID |-> expr.id]]
         IN added \o CallValidators(g, Tail(functionIds), expr, sourceInfo)

RECURSIVE traverseExpr(_, _, _, _)
\* for _, arg := range call.Args() { v.traverseExpr(arg, ctx, sourceInfo) },
\* and the same loop over list.Elements()
RECURSIVE traverseEach(_, _, _, _)
traverseEach(g, functionIds, exprs, sourceInfo) ==
    IF exprs = <<>> THEN <<>>
    ELSE traverseExpr(g, functionIds, Head(exprs), sourceInfo)
             \o traverseEach(g, functionIds, Tail(exprs), sourceInfo)

\* for _, entry := range mapExpr.Entries(): the key, then the value
RECURSIVE traverseEntries(_, _, _, _)
traverseEntries(g, functionIds, entries, sourceInfo) ==
    IF entries = <<>> THEN <<>>
    ELSE (IF Head(entries).kind = "mapEntry"
          THEN traverseExpr(g, functionIds, Head(entries).key, sourceInfo)
                   \o traverseExpr(g, functionIds, Head(entries).value, sourceInfo)
          ELSE <<>>)
             \o traverseEntries(g, functionIds, Tail(entries), sourceInfo)

\* for _, field := range structExpr.Fields(): the value
RECURSIVE traverseFields(_, _, _, _)
traverseFields(g, functionIds, fields, sourceInfo) ==
    IF fields = <<>> THEN <<>>
    ELSE (IF Head(fields).kind = "structField"
          THEN traverseExpr(g, functionIds, Head(fields).value, sourceInfo)
          ELSE <<>>)
             \o traverseFields(g, functionIds, Tail(fields), sourceInfo)

\* slip: the arguments of a call are traversed before its target
traverseExpr_ArgsBeforeTarget(g, functionIds, expr, sourceInfo) ==
    CallValidators(g, functionIds, expr, sourceInfo) \o
    CASE expr.kind = "call" ->
             traverseEach(g, functionIds, expr.args, sourceInfo)
                 \o traverseEach(g, functionIds, expr.target, sourceInfo)
      [] expr.kind = "select" -> traverseExpr(g, functionIds, expr.operand, sourceInfo)
      [] expr.kind = "list" -> traverseEach(g, functionIds, expr.elements, sourceInfo)
      [] expr.kind = "map" -> traverseEntries(g, functionIds, expr.entries, sourceInfo)
      [] expr.kind = "struct" -> traverseFields(g, functionIds, expr.fields, sourceInfo)
      [] expr.kind = "comprehension" ->
             traverseExpr(g, functionIds, expr.iterRange, sourceInfo)
                 \o traverseExpr(g, functionIds, expr.accuInit, sourceInfo)
                 \o traverseExpr(g, functionIds, expr.loopCondition, sourceInfo)
                 \o traverseExpr(g, functionIds, expr.loopStep, sourceInfo)
                 \o traverseExpr(g, functionIds, expr.result, sourceInfo)
      [] OTHER -> <<>>

\* The validators are called on the node, then the children are traversed
\* by kind; the result is ctx.issuesWithID, the issues in the order added.
traverseExpr(g, functionIds, expr, sourceInfo) ==
    CallValidators(g, functionIds, expr, sourceInfo) \o
    CASE expr.kind = "call" ->
             (IF expr.target # <<>>
              THEN traverseExpr(g, functionIds, expr.target[1], sourceInfo)
              ELSE <<>>)
                 \o traverseEach(g, functionIds, expr.args, sourceInfo)
      [] expr.kind = "select" -> traverseExpr(g, functionIds, expr.operand, sourceInfo)
      [] expr.kind = "list" -> traverseEach(g, functionIds, expr.elements, sourceInfo)
      [] expr.kind = "map" -> traverseEntries(g, functionIds, expr.entries, sourceInfo)
      [] expr.kind = "struct" -> traverseFields(g, functionIds, expr.fields, sourceInfo)
      [] expr.kind = "comprehension" ->
             traverseExpr(g, functionIds, expr.iterRange, sourceInfo)
                 \o traverseExpr(g, functionIds, expr.accuInit, sourceInfo)
                 \o traverseExpr(g, functionIds, expr.loopCondition, sourceInfo)
                 \o traverseExpr(g, functionIds, expr.loopStep, sourceInfo)
                 \o traverseExpr(g, functionIds, expr.result, sourceInfo)
      [] OTHER -> <<>>

\* slip: an issue is reported to the engine only under failOnWarning
RECURSIVE processIssues_OnlyFailOnWarning(_, _, _, _)
processIssues_OnlyFailOnWarning(v, issuesWithID, hasCollector, acc) ==
    IF issuesWithID = <<>> THEN acc
    ELSE LET issue == Head(issuesWithID)
             message == IF issue.location = {} THEN issue.message
                        ELSE LET l == CHOOSE x \in issue.location : TRUE
                             IN issue.message \o <<"line", l.line, "col", l.column>>
             collected == IF hasCollector /\ issue.severity # "error"
                          THEN Append(acc.collected,
                                      [severity |-> issue.severity,
                                       message |-> issue.message,
                                       location |-> issue.location])
                          ELSE acc.collected
             errors == IF v.failOnWarning
                       THEN Append(acc.errors, [nodeID |-> issue.nodeID, message |-> message])
                       ELSE acc.errors
         IN IF ~v.includeWarnings /\ issue.severity = "warning"
            THEN processIssues_OnlyFailOnWarning(v, Tail(issuesWithID), hasCollector, acc)
            ELSE processIssues_OnlyFailOnWarning(v, Tail(issuesWithID), hasCollector,
                               [errors |-> errors, collected |-> collected])

\* slip: the collector gets the message with the location annotation
RECURSIVE processIssues_CollectsAnnotated(_, _, _, _)
processIssues_CollectsAnnotated(v, issuesWithID, hasCollector, acc) ==
    IF issuesWithID = <<>> THEN acc
    ELSE LET issue == Head(issuesWithID)
             message == IF issue.location = {} THEN issue.message
                        ELSE LET l == CHOOSE x \in issue.location : TRUE
                             IN issue.message \o <<"line", l.line, "col", l.column>>
             collected == IF hasCollector /\ issue.severity # "error"
                          THEN Append(acc.collected,
                                      [severity |-> issue.severity,
                                       message |-> message,
                                       location |-> issue.location])
                          ELSE acc.collected
             errors == IF issue.severity = "error" \/ v.failOnWarning
                       THEN Append(acc.errors, [nodeID |-> issue.nodeID, message |-> message])
                       ELSE acc.errors
         IN IF ~v.includeWarnings /\ issue.severity = "warning"
            THEN processIssues_CollectsAnnotated(v, Tail(issuesWithID), hasCollector, acc)
            ELSE processIssues_CollectsAnnotated(v, Tail(issuesWithID), hasCollector,
                               [errors |-> errors, collected |-> collected])

\* slip: the skip of the warnings under includeWarnings off is left out
RECURSIVE processIssues_KeepsWarnings(_, _, _, _)
processIssues_KeepsWarnings(v, issuesWithID, hasCollector, acc) ==
    IF issuesWithID = <<>> THEN acc
    ELSE LET issue == Head(issuesWithID)
             message == IF issue.location = {} THEN issue.message
                        ELSE LET l == CHOOSE x \in issue.location : TRUE
                             IN issue.message \o <<"line", l.line, "col", l.column>>
             collected == IF hasCollector /\ issue.severity # "error"
                          THEN Append(acc.collected,
                                      [severity |-> issue.severity,
                                       message |-> issue.message,
                                       location |-> issue.location])
                          ELSE acc.collected
             errors == IF issue.severity = "error" \/ v.failOnWarning
                       THEN Append(acc.errors, [nodeID |-> issue.nodeID, message |-> message])
                       ELSE acc.errors
         IN processIssues_KeepsWarnings(v, Tail(issuesWithID), hasCollector,
                                        [errors |-> errors, collected |-> collected])

\* acc.errors are the errors reported to the engine's issues, acc.collected
\* the issues added to the compilation collector (when there is one)
RECURSIVE processIssues(_, _, _, _)
processIssues(v, issuesWithID, hasCollector, acc) ==
    IF issuesWithID = <<>> THEN acc
    ELSE LET issue == Head(issuesWithID)
             message == IF issue.location = {} THEN issue.message
                        ELSE LET l == CHOOSE x \in issue.location : TRUE
                             IN issue.message \o <<"line", l.line, "col", l.column>>
             collected == IF hasCollector /\ issue.severity # "error"
                          THEN Append(acc.collected,
                                      [severity |-> issue.severity,
                                       message |-> issue.message,
                                       location |-> issue.location])
                          ELSE acc.collected
             errors == IF issue.severity = "error" \/ v.failOnWarning
                       THEN Append(acc.errors, [nodeID |-> issue.nodeID, message |-> message])
                       ELSE acc.errors
         IN IF ~v.includeWarnings /\ issue.severity = "warning"
            THEN processIssues(v, Tail(issuesWithID), hasCollector, acc)
            ELSE processIssues(v, Tail(issuesWithID), hasCollector,
                               [errors |-> errors, collected |-> collected])

\* JSASTValidator.Validate: the collector is looked up by the description of
\* the source that is being checked
Validate(g, v, a, description, errors) ==
    IF v.validatorFunctionIds = <<>> THEN [g |-> g, errors |-> errors]
    ELSE LET hasCollector == description \in DOMAIN g.compilationRegistry
             raised == traverseExpr(g, v.validatorFunctionIds, a.expr, a.sourceInfo)
             acc == processIssues(v, raised, hasCollector,
                        [errors |-> errors,
                         collected |-> IF hasCollector
                                       THEN g.compilationRegistry[description]
                                       ELSE <<>>])
         IN [g |-> IF hasCollector
                   THEN [g EXCEPT !.compilationRegistry[description] = acc.collected]
                   ELSE g,
             errors |-> acc.errors]

RECURSIVE ApplyValidators(_, _, _, _, _)
ApplyValidators(g, validators, a, description, errors) ==
    IF validators = <<>> THEN [g |-> g, errors |-> errors]
    ELSE LET r == Validate(g, Head(validators), a, description, errors)
         IN ApplyValidators(r.g, Tail(validators), a, description, r.errors)

\* env.Compile / env.ParseSource + env.Check: the validators of the
\* environment run on an expression that parses and type-checks
Check(g, env, exprStr, description) ==
    IF ~CheckOK(env, exprStr)
    THEN [g |-> g, errors |-> <<[nodeID |-> 1, message |-> <<"undeclared reference or syntax error">>]>>]
    ELSE ApplyValidators(g, ValidatorsOf(env), AST(exprStr), description, <<>>)

\* issues.Errors() in the format CompileDetailed hands to the host
ErrorIssues(exprStr, errors) ==
    [k \in 1..Len(errors) |->
        [severity |-> "error", message |-> errors[k].message,
         location |-> {LocationOfID(exprStr, errors[k].nodeID)}]]

\* ------------------------------------------- internal/cel: operations
\* slip: the destroyed check is left out
Compile_NoDestroyedCheck(g, envID, exprStr) ==
    IF envID \notin DOMAIN g.envs
    THEN Return(g, "compileExpr", "environment not found", NoValue, <<>>)
    ELSE IF Check(g, g.envs[envID].env, exprStr, InputDescription).errors # <<>>
    THEN Return(g, "compileExpr", "compilation error", NoValue, <<>>)
    ELSE LET programID == g.programIDCounter + 1
             g1 == [g EXCEPT !.programIDCounter = programID,
                             !.programs = Put(@, programID,
                                 [prg |-> BoundCall(g.envs[envID].env, exprStr),
                                  envID |-> envID])]
             g2 == IncrementAll(g1, g.envs[envID].implIDs)
         IN Return(g2, "compileExpr", NoError, programID, <<>>)

Compile(g, envID, exprStr) ==
    IF envID \notin DOMAIN g.envs
    THEN Return(g, "compileExpr", "environment not found", NoValue, <<>>)
    ELSE IF g.envs[envID].destroyed
    THEN Return(g, "compileExpr", "environment has been destroyed", NoValue, <<>>)
    ELSE IF Check(g, g.envs[envID].env, exprStr, InputDescription).errors # <<>>
    THEN Return(g, "compileExpr", "compilation error", NoValue, <<>>)
    ELSE LET programID == g.programIDCounter + 1
             g1 == [g EXCEPT !.programIDCounter = programID,
                             !.programs = Put(@, programID,
                                 [prg |-> BoundCall(g.envs[envID].env, exprStr),
                                  envID |-> envID])]
             g2 == IncrementAll(g1, g.envs[envID].implIDs)
         IN Return(g2, "compileExpr", NoError, programID, <<>>)

\* Compile in the three stretches between which control can leave it: the
\* validator functions of the host run inside env.Compile.  The frame
\* holds the locals of the call; envState is the *EnvState read from envs,
\* which the call keeps using after the check.
CompileBegin(g, envID, exprStr) ==
    IF envID \notin DOMAIN g.envs
    THEN [g |-> Return(g, "compileExpr", "environment not found", NoValue, <<>>),
          frames |-> <<>>]
    ELSE IF g.envs[envID].destroyed
    THEN [g |-> Return(g, "compileExpr", "environment has been destroyed", NoValue, <<>>),
          frames |-> <<>>]
    ELSE [g |-> g,
          frames |-> <<[envID |-> envID, exprStr |-> exprStr, envState |-> g.envs[envID],
                        pc |-> "check", errors |-> <<>>]>>]

\* envState.env.Compile(exprStr)
CompileCheck(g, frame) ==
    LET checked == Check(g, frame.envState.env, frame.exprStr, InputDescription)
    IN [g |-> checked.g,
        frame |-> [frame EXCEPT !.pc = "store", !.errors = checked.errors]]

\* from issues.Err() to the return: the program entry and the increments
CompileEnd(g, frame) ==
    IF frame.errors # <<>>
    THEN Return(g, "compileExpr", "compilation error", NoValue, <<>>)
    ELSE LET programID == g.programIDCounter + 1
             g1 == [g EXCEPT !.programIDCounter = programID,
                             !.programs = Put(@, programID,
                                 [prg |-> BoundCall(frame.envState.env, frame.exprStr),
                                  envID |-> frame.envID])]
         IN Return(IncrementAll(g1, frame.envState.implIDs),
                   "compileExpr", NoError, programID, <<>>)

\* slip: the loop that increments the reference counts is left out
CompileDetailed_NoIncrement(g, envID, exprStr) ==
    IF envID \notin DOMAIN g.envs
    THEN ReturnDetailed(g, "environment not found", NoValue, <<>>)
    ELSE IF g.envs[envID].destroyed
    THEN ReturnDetailed(g, "environment has been destroyed", NoValue, <<>>)
    ELSE LET compilationID == g.compilationIDCounter + 1
             g1 == RegisterCompilationContext(
                       [g EXCEPT !.compilationIDCounter = compilationID],
                       compilationID, <<>>)
             checked == Check(g1, g1.envs[envID].env, exprStr, compilationID)
             g2 == checked.g
             jsIssues == ErrorIssues(exprStr, checked.errors)
                             \o g2.compilationRegistry[compilationID]
             programID == g2.programIDCounter + 1
             g3 == [g2 EXCEPT !.programIDCounter = programID,
                              !.programs = Put(@, programID,
                                  [prg |-> BoundCall(g2.envs[envID].env, exprStr),
                                   envID |-> envID])]
         IN IF checked.errors # <<>>
            THEN ReturnDetailed(UnregisterCompilationContext(g2, compilationID),
                                "compilation error", NoValue, jsIssues)
            ELSE ReturnDetailed(UnregisterCompilationContext(g3, compilationID),
                                NoError, programID, jsIssues)

\* slip: the collected issues are put before the engine's errors
CompileDetailed_CollectedFirst(g, envID, exprStr) ==
    IF envID \notin DOMAIN g.envs
    THEN ReturnDetailed(g, "environment not found", NoValue, <<>>)
    ELSE IF g.envs[envID].destroyed
    THEN ReturnDetailed(g, "environment has been destroyed", NoValue, <<>>)
    ELSE LET compilationID == g.compilationIDCounter + 1
             g1 == RegisterCompilationContext(
                       [g EXCEPT !.compilationIDCounter = compilationID],
                       compilationID, <<>>)
             checked == Check(g1, g1.envs[envID].env, exprStr, compilationID)
             g2 == checked.g
             jsIssues == g2.compilationRegistry[compilationID]
                             \o ErrorIssues(exprStr, checked.errors)
             programID == g2.programIDCounter + 1
             g3 == [g2 EXCEPT !.programIDCounter = programID,
                              !.programs = Put(@, programID,
                                  [prg |-> BoundCall(g2.envs[envID].env, exprStr),
                                   envID |-> envID])]
             g4 == IncrementAll(g3, g3.envs[envID].implIDs)
         IN IF checked.errors # <<>>
            THEN ReturnDetailed(UnregisterCompilationContext(g2, compilationID),
                                "compilation error", NoValue, jsIssues)
            ELSE ReturnDetailed(UnregisterCompilationContext(g4, compilationID),
                                NoError, programID, jsIssues)

\* slip: the context is unregistered on the success path only
CompileDetailed_LeakOnFailure(g, envID, exprStr) ==
    IF envID \notin DOMAIN g.envs
    THEN ReturnDetailed(g, "environment not found", NoValue, <<>>)
    ELSE IF g.envs[envID].destroyed
    THEN ReturnDetailed(g, "environment has been destroyed", NoValue, <<>>)
    ELSE LET compilationID == g.compilationIDCounter + 1
             g1 == RegisterCompilationContext(
                       [g EXCEPT !.compilationIDCounter = compilationID],
                       compilationID, <<>>)
             checked == Check(g1, g1.envs[envID].env, exprStr, compilationID)
             g2 == checked.g
             jsIssues == ErrorIssues(exprStr, checked.errors)
                             \o g2.compilationRegistry[compilationID]
             programID == g2.programIDCounter + 1
             g3 == [g2 EXCEPT !.programIDCounter = programID,
                              !.programs = Put(@, programID,
                                  [prg |-> BoundCall(g2.envs[envID].env, exprStr),
                                   envID |-> envID])]
             g4 == IncrementAll(g3, g3.envs[envID].implIDs)
         IN IF checked.errors # <<>>
            THEN ReturnDetailed(g2, "compilation error", NoValue, jsIssues)
            ELSE ReturnDetailed(UnregisterCompilationContext(g4, compilationID),
                                NoError, programID, jsIssues)

\* CompileDetailed in the three stretches between which control is with the
\* host: a validator function is a host callback, and the host can start
\* another detailed compile before it returns.  A call that got past the
\* destroyed check is a frame: its arguments, the compilation id it
\* registered its collector under (the counter; the code appends the
\* address of the collector variable), where it is, and the engine's
\* errors once the check is done.

\* slip: the id is made of the environment handle, not of the call
CompileDetailedBegin_IDOfEnvironment(g, envID, exprStr) ==
    IF envID \notin DOMAIN g.envs
    THEN [g |-> ReturnDetailed(g, "environment not found", NoValue, <<>>), frames |-> <<>>]
    ELSE IF g.envs[envID].destroyed
    THEN [g |-> ReturnDetailed(g, "environment has been destroyed", NoValue, <<>>),
          frames |-> <<>>]
    ELSE LET compilationID == envID
             g1 == RegisterCompilationContext(
                       [g EXCEPT !.compilationIDCounter = @ + 1],
                       compilationID, <<>>)
         IN [g |-> g1,
             frames |-> <<[envID |-> envID, exprStr |-> exprStr,
                           compilationID |-> compilationID, pc |-> "check",
                           errors |-> <<>>]>>]

\* up to the registration of the compilation context
CompileDetailedBegin(g, envID, exprStr) ==
    IF envID \notin DOMAIN g.envs
    THEN [g |-> ReturnDetailed(g, "environment not found", NoValue, <<>>), frames |-> <<>>]
    ELSE IF g.envs[envID].destroyed
    THEN [g |-> ReturnDetailed(g, "environment has been destroyed", NoValue, <<>>),
          frames |-> <<>>]
    ELSE LET compilationID == g.compilationIDCounter + 1
             g1 == RegisterCompilationContext(
                       [g EXCEPT !.compilationIDCounter = compilationID],
                       compilationID, <<>>)
         IN [g |-> g1,
             frames |-> <<[envID |-> envID, exprStr |-> exprStr,
                           compilationID |-> compilationID, pc |-> "check",
                           errors |-> <<>>]>>]

\* env.ParseSource + env.Check on the source described by the compilation id
CompileDetailedCheck(g, frame) ==
    LET checked == Check(g, g.envs[frame.envID].env, frame.exprStr, frame.compilationID)
    IN [g |-> checked.g,
        frame |-> [frame EXCEPT !.pc = "return", !.errors = checked.errors]]

\* from the conversion of the issues to the return, with the deferred
\* UnregisterCompilationContext.  The collector of the call is the one it
\* registered under its id.
CompileDetailedEnd(g, frame) ==
    LET compilationID == frame.compilationID
        envID == frame.envID
        collected == IF compilationID \in DOMAIN g.compilationRegistry
                     THEN g.compilationRegistry[compilationID]
                     ELSE <<>>
        jsIssues == ErrorIssues(frame.exprStr, frame.errors) \o collected
        programID == g.programIDCounter + 1
        g3 == [g EXCEPT !.programIDCounter = programID,
                        !.programs = Put(@, programID,
                            [prg |-> BoundCall(g.envs[envID].env, frame.exprStr),
                             envID |-> envID])]
        g4 == IncrementAll(g3, g3.envs[envID].implIDs)
    IN IF frame.errors # <<>>
       THEN ReturnDetailed(UnregisterCompilationContext(g, compilationID),
                           "compilation error", NoValue, jsIssues)
       ELSE ReturnDetailed(UnregisterCompilationContext(g4, compilationID),
                           NoError, programID, jsIssues)

\* The whole call: the deferred UnregisterCompilationContext runs on every
\* return after the registration, and the issues are the engine's errors
\* followed by what the validators added to the collector of this call.
CompileDetailed(g, envID, exprStr) ==
    LET b == CompileDetailedBegin(g, envID, exprStr) IN
    IF b.frames = <<>> THEN b.g
    ELSE LET c == CompileDetailedCheck(b.g, b.frames[1])
         IN CompileDetailedEnd(c.g, c.frame)

\* slip: the reference counts are incremented as Compile increments them
Typecheck_CountsReferences(g, envID, exprStr) ==
    IF envID \notin DOMAIN g.envs
    THEN Return(g, "typecheckExpr", "environment not found", NoValue, <<>>)
    ELSE IF g.envs[envID].destroyed
    THEN Return(g, "typecheckExpr", "environment has been destroyed", NoValue, <<>>)
    ELSE IF Check(g, g.envs[envID].env, exprStr, InputDescription).errors # <<>>
    THEN Return(g, "typecheckExpr", "typecheck error", NoValue, <<>>)
    ELSE Return(IncrementAll(g, g.envs[envID].implIDs),
                "typecheckExpr", NoError, NoValue, <<>>)

Typecheck(g, envID, exprStr) ==
    IF envID \notin DOMAIN g.envs
    THEN Return(g, "typecheckExpr", "environment not found", NoValue, <<>>)
    ELSE IF g.envs[envID].destroyed
    THEN Return(g, "typecheckExpr", "environment has been destroyed", NoValue, <<>>)
    ELSE IF Check(g, g.envs[envID].env, exprStr, InputDescription).errors # <<>>
    THEN Return(g, "typecheckExpr", "typecheck error", NoValue, <<>>)
    ELSE Return(g, "typecheckExpr", NoError, NoValue, <<>>)

\* slip: the error of CallJSFunction is dropped and the call answers null
Eval_MissingAnswersNull(g, programID) ==
    IF programID \notin DOMAIN g.programs
    THEN Return(g, "evalProgram", "program not found", NoValue, <<>>)
    ELSE LET implID == g.programs[programID].prg IN
         IF implID = NoCall
         THEN Return(g, "evalProgram", NoError, 30, <<>>)
         ELSE IF implID \notin DOMAIN g.registry
         THEN Return(g, "evalProgram", NoError, NoValue, <<>>)
         ELSE Return(g, "evalProgram", NoError, 30 + g.registry[implID], <<implID>>)

\* slip: the binding is looked up by name in one process-wide table, so the
\* latest registration answers
Eval_SharedBinding(g, programID) ==
    IF programID \notin DOMAIN g.programs
    THEN Return(g, "evalProgram", "program not found", NoValue, <<>>)
    ELSE IF g.programs[programID].prg = NoCall
    THEN Return(g, "evalProgram", NoError, 30, <<>>)
    ELSE IF DOMAIN g.registry = {}
    THEN Return(g, "evalProgram", "evaluation error", NoValue, <<>>)
    ELSE LET implID == CHOOSE i \in DOMAIN g.registry : \A j \in DOMAIN g.registry : j <= i IN
         Return(g, "evalProgram", NoError, 30 + g.registry[implID], <<implID>>)

\* The function binding of CreateEnvWithOptions calls CallJSFunction(implID),
\* which fails when the id is not in the registry; the host function adds
\* its variant to 10 + 20.
Eval(g, programID) ==
    IF programID \notin DOMAIN g.programs
    THEN Return(g, "evalProgram", "program not found", NoValue, <<>>)
    ELSE LET implID == g.programs[programID].prg IN
         IF implID = NoCall
         THEN Return(g, "evalProgram", NoError, 30, <<>>)
         ELSE IF implID \notin DOMAIN g.registry
         THEN Return(g, "evalProgram", "evaluation error", NoValue, <<>>)
         ELSE Return(g, "evalProgram", NoError, 30 + g.registry[implID], <<implID>>)

\* slip: the immediate cleanup forgets delete(envs, envID)
DestroyEnv_KeepsEntry(g, envID) ==
    IF envID \notin DOMAIN g.envs
    THEN Return(g, "destroyEnv", "environment not found", NoValue, <<>>)
    ELSE LET g1 == [g EXCEPT !.envs[envID].destroyed = TRUE]
             implIDs == g.envs[envID].implIDs
             g2 == IF canCleanupImmediately(g1, implIDs)
                   THEN UnregisterAll(g1, implIDs)
                   ELSE g1
         IN Return([g2 EXCEPT !.hist.envDestroyed = @ \cup {envID}],
                   "destroyEnv", NoError, NoValue, <<>>)

\* slip: an environment that is flagged destroyed already is removed
\* whatever the reference counts are
DestroyEnv_ForcesCleanup(g, envID) ==
    IF envID \notin DOMAIN g.envs
    THEN Return(g, "destroyEnv", "environment not found", NoValue, <<>>)
    ELSE LET g1 == [g EXCEPT !.envs[envID].destroyed = TRUE]
             implIDs == g.envs[envID].implIDs
             g2 == IF g.envs[envID].destroyed \/ canCleanupImmediately(g1, implIDs)
                   THEN [UnregisterAll(g1, implIDs) EXCEPT !.envs = Remove(@, envID)]
                   ELSE g1
         IN Return([g2 EXCEPT !.hist.envDestroyed = @ \cup {envID}],
                   "destroyEnv", NoError, NoValue, <<>>)

DestroyEnv(g, envID) ==
    IF envID \notin DOMAIN g.envs
    THEN Return(g, "destroyEnv", "environment not found", NoValue, <<>>)
    ELSE LET g1 == [g EXCEPT !.envs[envID].destroyed = TRUE]
             implIDs == g.envs[envID].implIDs
             g2 == IF canCleanupImmediately(g1, implIDs)
                   THEN [UnregisterAll(g1, implIDs) EXCEPT !.envs = Remove(@, envID)]
                   ELSE g1
         IN Return([g2 EXCEPT !.hist.envDestroyed = @ \cup {envID}],
                   "destroyEnv", NoError, NoValue, <<>>)

\* slip: a handle that is not in the table counts as destroyed already
DestroyProgram_UnknownSucceeds(g, programID) ==
    IF programID \notin DOMAIN g.programs
    THEN Return(g, "destroyProgram", NoError, NoValue, <<>>)
    ELSE LET envID == g.programs[programID].envID
             g1 == [g EXCEPT !.programs = Remove(@, programID)]
             g2 == IF envID \in DOMAIN g1.envs
                   THEN LET g3 == DecrementAll(g1, g1.envs[envID].implIDs) IN
                        IF g3.envs[envID].destroyed /\ ~hasRemainingPrograms(g3, envID)
                        THEN [g3 EXCEPT !.envs = Remove(@, envID)]
                        ELSE g3
                   ELSE g1
         IN Return([g2 EXCEPT !.hist.programDestroyed = @ \cup {programID}],
                   "destroyProgram", NoError, NoValue, <<>>)

\* slip: the counts are decremented without unregisterFunctionIfUnused
DestroyProgram_NoUnregister(g, programID) ==
    IF programID \notin DOMAIN g.programs
    THEN Return(g, "destroyProgram", "program not found", NoValue, <<>>)
    ELSE LET envID == g.programs[programID].envID
             g1 == [g EXCEPT !.programs = Remove(@, programID)]
             g2 == IF envID \in DOMAIN g1.envs
                   THEN LET owned == Range(g1.envs[envID].implIDs)
                            g3 == [g1 EXCEPT !.functionRefs =
                                      [i \in DOMAIN @ |->
                                          IF i \in owned
                                          THEN [@[i] EXCEPT !.refCount = @ - 1]
                                          ELSE @[i]]]
                        IN IF g3.envs[envID].destroyed /\ ~hasRemainingPrograms(g3, envID)
                           THEN [g3 EXCEPT !.envs = Remove(@, envID)]
                           ELSE g3
                   ELSE g1
         IN Return([g2 EXCEPT !.hist.programDestroyed = @ \cup {programID}],
                   "destroyProgram", NoError, NoValue, <<>>)

\* slip: delete(programs, programID) is left out
DestroyProgram_KeepsEntry(g, programID) ==
    IF programID \notin DOMAIN g.programs
    THEN Return(g, "destroyProgram", "program not found", NoValue, <<>>)
    ELSE LET envID == g.programs[programID].envID
             g2 == IF envID \in DOMAIN g.envs
                   THEN LET g3 == DecrementAll(g, g.envs[envID].implIDs) IN
                        IF g3.envs[envID].destroyed /\ ~hasRemainingPrograms(g3, envID)
                        THEN [g3 EXCEPT !.envs = Remove(@, envID)]
                        ELSE g3
                   ELSE g
         IN Return([g2 EXCEPT !.hist.programDestroyed = @ \cup {programID}],
                   "destroyProgram", NoError, NoValue, <<>>)

DestroyProgram(g, programID) ==
    IF programID \notin DOMAIN g.programs
    THEN Return(g, "destroyProgram", "program not found", NoValue, <<>>)
    ELSE LET envID == g.programs[programID].envID
             g1 == [g EXCEPT !.programs = Remove(@, programID)]
             g2 == IF envID \in DOMAIN g1.envs
                   THEN LET g3 == DecrementAll(g1, g1.envs[envID].implIDs) IN
                        IF g3.envs[envID].destroyed /\ ~hasRemainingPrograms(g3, envID)
                        THEN [g3 EXCEPT !.envs = Remove(@, envID)]
                        ELSE g3
                   ELSE g1
         IN Return([g2 EXCEPT !.hist.programDestroyed = @ \cup {programID}],
                   "destroyProgram", NoError, NoValue, <<>>)

\* ------------------------------------- DestroyProgram, step by step
\* a call of DestroyProgram that has not read anything yet
DestroyProgramCall(programID) ==
    [programID |-> programID, pc |-> "lookup", envID |-> NoValue, implIDs |-> <<>>,
     idx |-> 1, refCount |-> 0, hasRemainingPrograms |-> FALSE]

\* envState.destroyed, read through the pointer the call holds: an
\* environment that was deleted from envs in the meantime was destroyed
envStateDestroyed(g, envID) ==
    IF envID \in DOMAIN g.envs THEN g.envs[envID].destroyed ELSE TRUE

\* slip: the reference count is written back as it was read
DestroyProgramStep_LosesDecrement(g, f) ==
    LET implID == f.implIDs[f.idx]
        next == [f EXCEPT !.idx = @ + 1, !.pc = "ref"]
    IN CASE f.pc = "lookup" ->
                IF f.programID \notin DOMAIN g.programs
                THEN [g |-> Return(g, "destroyProgram", "program not found", NoValue, <<>>),
                      frames |-> <<>>]
                ELSE [g |-> g,
                      frames |-> <<[f EXCEPT !.envID = g.programs[f.programID].envID,
                                             !.pc = "delete"]>>]
         [] f.pc = "delete" ->
                [g |-> [g EXCEPT !.programs = Remove(@, f.programID)],
                 frames |-> <<[f EXCEPT !.pc = "env"]>>]
         [] f.pc = "env" ->
                IF f.envID \in DOMAIN g.envs
                THEN [g |-> g,
                      frames |-> <<[f EXCEPT !.implIDs = g.envs[f.envID].implIDs,
                                             !.idx = 1, !.pc = "ref"]>>]
                ELSE [g |-> g, frames |-> <<[f EXCEPT !.pc = "return"]>>]
         [] f.pc = "ref" ->
                IF f.idx > Len(f.implIDs)
                THEN [g |-> g, frames |-> <<[f EXCEPT !.pc = "remaining"]>>]
                ELSE IF implID \in DOMAIN g.functionRefs
                THEN [g |-> g,
                      frames |-> <<[f EXCEPT !.refCount = g.functionRefs[implID].refCount,
                                             !.pc = "decrement"]>>]
                ELSE [g |-> g, frames |-> <<next>>]
         [] f.pc = "decrement" ->
                [g |-> IF implID \in DOMAIN g.functionRefs
                       THEN [g EXCEPT !.functionRefs[implID].refCount = f.refCount]
                       ELSE g,
                 frames |-> <<[f EXCEPT !.pc = "unused"]>>]
         [] f.pc = "unused" ->
                IF implID \notin DOMAIN g.functionRefs
                THEN [g |-> g, frames |-> <<next>>]
                ELSE IF g.functionRefs[implID].refCount <= 0
                THEN [g |-> g, frames |-> <<[f EXCEPT !.pc = "unregister"]>>]
                ELSE [g |-> g, frames |-> <<next>>]
         [] f.pc = "unregister" ->
                [g |-> UnregisterFunction(g, implID),
                 frames |-> <<[f EXCEPT !.pc = "untrack"]>>]
         [] f.pc = "untrack" ->
                [g |-> [g EXCEPT !.functionRefs = Remove(@, implID)], frames |-> <<next>>]
         [] f.pc = "remaining" ->
                [g |-> g,
                 frames |-> <<[f EXCEPT !.hasRemainingPrograms = hasRemainingPrograms(g, f.envID),
                                        !.pc = "cleanup"]>>]
         [] f.pc = "cleanup" ->
                [g |-> IF envStateDestroyed(g, f.envID) /\ ~f.hasRemainingPrograms
                       THEN [g EXCEPT !.envs = Remove(@, f.envID)]
                       ELSE g,
                 frames |-> <<[f EXCEPT !.pc = "return"]>>]
         [] OTHER ->
                [g |-> Return([g EXCEPT !.hist.programDestroyed = @ \cup {f.programID}],
                              "destroyProgram", NoError, NoValue, <<>>),
                 frames |-> <<>>]

\* One read or one write of DestroyProgram and unregisterFunctionIfUnused on
\* the tables: the frame holds the locals of the call (envID, the implIDs
\* of envState, the loop index, the reference count read for refCount--,
\* hasRemainingPrograms).  ref.refCount-- is the read at "ref" and the
\* write at "decrement".
DestroyProgramStep(g, f) ==
    LET implID == f.implIDs[f.idx]
        next == [f EXCEPT !.idx = @ + 1, !.pc = "ref"]
    IN CASE f.pc = "lookup" ->
                IF f.programID \notin DOMAIN g.programs
                THEN [g |-> Return(g, "destroyProgram", "program not found", NoValue, <<>>),
                      frames |-> <<>>]
                ELSE [g |-> g,
                      frames |-> <<[f EXCEPT !.envID = g.programs[f.programID].envID,
                                             !.pc = "delete"]>>]
         [] f.pc = "delete" ->
                [g |-> [g EXCEPT !.programs = Remove(@, f.programID)],
                 frames |-> <<[f EXCEPT !.pc = "env"]>>]
         [] f.pc = "env" ->
                IF f.envID \in DOMAIN g.envs
                THEN [g |-> g,
                      frames |-> <<[f EXCEPT !.implIDs = g.envs[f.envID].implIDs,
                                             !.idx = 1, !.pc = "ref"]>>]
                ELSE [g |-> g, frames |-> <<[f EXCEPT !.pc = "return"]>>]
         [] f.pc = "ref" ->
                IF f.idx > Len(f.implIDs)
                THEN [g |-> g, frames |-> <<[f EXCEPT !.pc = "remaining"]>>]
                ELSE IF implID \in DOMAIN g.functionRefs
                THEN [g |-> g,
                      frames |-> <<[f EXCEPT !.refCount = g.functionRefs[implID].refCount,
                                             !.pc = "decrement"]>>]
                ELSE [g |-> g, frames |-> <<next>>]
         [] f.pc = "decrement" ->
                [g |-> IF implID \in DOMAIN g.functionRefs
                       THEN [g EXCEPT !.functionRefs[implID].refCount = f.refCount - 1]
                       ELSE g,
                 frames |-> <<[f EXCEPT !.pc = "unused"]>>]
         [] f.pc = "unused" ->
                IF implID \notin DOMAIN g.functionRefs
                THEN [g |-> g, frames |-> <<next>>]
                ELSE IF g.functionRefs[implID].refCount <= 0
                THEN [g |-> g, frames |-> <<[f EXCEPT !.pc = "unregister"]>>]
                ELSE [g |-> g, frames |-> <<next>>]
         [] f.pc = "unregister" ->
                [g |-> UnregisterFunction(g, implID),
                 frames |-> <<[f EXCEPT !.pc = "untrack"]>>]
         [] f.pc = "untrack" ->
                [g |-> [g EXCEPT !.functionRefs = Remove(@, implID)], frames |-> <<next>>]
         [] f.pc = "remaining" ->
                [g |-> g,
                 frames |-> <<[f EXCEPT !.hasRemainingPrograms = hasRemainingPrograms(g, f.envID),
                                        !.pc = "cleanup"]>>]
         [] f.pc = "cleanup" ->
                [g |-> IF envStateDestroyed(g, f.envID) /\ ~f.hasRemainingPrograms
                       THEN [g EXCEPT !.envs = Remove(@, f.envID)]
                       ELSE g,
                 frames |-> <<[f EXCEPT !.pc = "return"]>>]
         [] OTHER ->
                [g |-> Return([g EXCEPT !.hist.programDestroyed = @ \cup {f.programID}],
                              "destroyProgram", NoError, NoValue, <<>>),
                 frames |-> <<>>]

\* the steps of the calls, the first call to its end before the next
RECURSIVE DestroyProgramRun(_, _)
DestroyProgramRun(g, frames) ==
    IF frames = <<>> THEN g
    ELSE LET r == DestroyProgramStep(g, Head(frames))
         IN DestroyProgramRun(r.g, r.frames \o Tail(frames))

\* ------------------------------------------------------- lib/index.ts
\* The whole state as one record: the runtime g plus the module state of
\* lib/index.ts (implIDCounter, the Env and Program objects) and the outcome
\* the caller of the last wrapper method saw.
S == [g |-> G, implIDCounter |-> implIDCounter, envObjs |-> envObjs,
      progObjs |-> progObjs, out |-> out]

SetS(s) ==
    /\ SetG(s.g)
    /\ implIDCounter' = s.implIDCounter
    /\ envObjs' = s.envObjs
    /\ progObjs' = s.progObjs
    /\ out' = s.out
    /\ UNCHANGED inProgress

Done(s, op, err, val, rt) ==
    [s EXCEPT !.out = Outcome(op, err, val, rt, s.g.res.error, s.g.res.cb)]

\* a call of one of the functions cmd/wasm sets on the global object, made
\* without a wrapper object
Direct(g) ==
    /\ SetG(g)
    /\ out' = Outcome(g.res.fn, g.res.error, g.res.value, <<g.res.fn>>, g.res.error, g.res.cb)
    /\ UNCHANGED <<implIDCounter, envObjs, progObjs, inProgress>>

\* functions.map((fn, index) => { implID = ++implIDCounter; registerCELFunction(implID, fn.impl) })
RECURSIVE serializeFunctionDefs(_, _)
serializeFunctionDefs(s, functions) ==
    IF functions = <<>> THEN [s |-> s, defs |-> <<>>]
    ELSE LET implID == s.implIDCounter + 1
             s1 == [s EXCEPT !.implIDCounter = implID,
                             !.g = registerFunction(@, implID, Head(functions).impl)]
             rest == serializeFunctionDefs(s1, Tail(functions))
         IN [s |-> rest.s,
             defs |-> <<[name |-> Head(functions).name, implID |-> implID]>> \o rest.defs]

\* compileDetailed resolves with the issues of the runtime's result
DoneDetailed(s, op, err, val, rt) ==
    [op |-> op, err |-> err, val |-> val, rt |-> rt, rterr |-> s.g.res.error,
     cb |-> s.g.res.cb, issues |-> s.g.res.issues]

\* setupEnv.registerFunction: the implementation id is made of the name, the
\* handle, Date.now() and Math.random(), so it is new; validator ids are the
\* negative numbers here, function ids the positive ones
registerValidator(s, envID, impl) ==
    LET implID == 0 - (Cardinality({i \in DOMAIN s.g.registry : i < 0}) + 1)
        g1 == registerFunction(s.g, implID, impl)
    IN [s |-> [s EXCEPT !.g = [g1 EXCEPT !.hist.validatorOf = Put(@, implID, envID)]],
        implID |-> implID]

\* astValidators(config).setupAndProcess: one registration per validator
RECURSIVE setupAndProcess(_, _, _)
setupAndProcess(s, envID, validators) ==
    IF validators = <<>> THEN [s |-> s, validatorFunctionIds |-> <<>>]
    ELSE LET first == registerValidator(s, envID, Head(validators))
             rest == setupAndProcess(first.s, envID, Tail(validators))
         IN [s |-> rest.s,
             validatorFunctionIds |-> <<first.implID>> \o rest.validatorFunctionIds]

\* for (const option of options): an option with setupAndProcess is set up,
\* any other is passed through
RECURSIVE processOptions(_, _, _)
processOptions(s, envID, options) ==
    IF options = <<>> THEN [s |-> s, processedOptions |-> <<>>]
    ELSE LET option == Head(options)
             first == IF "validators" \in DOMAIN option
                      THEN LET setup == setupAndProcess(s, envID, option.validators)
                           IN [s |-> setup.s,
                               option |-> [type |-> "ASTValidators",
                                           validatorFunctionIds |-> setup.validatorFunctionIds,
                                           failOnWarning |-> option.failOnWarning,
                                           includeWarnings |-> option.includeWarnings]]
                      ELSE [s |-> s, option |-> option]
             rest == processOptions(first.s, envID, Tail(options))
         IN [s |-> rest.s, processedOptions |-> <<first.option>> \o rest.processedOptions]

\* Env._extendWithOptions, on the Env object of handle envID
extendWithOptions(s, op, envID, options, rt) ==
    IF s.envObjs[envID].destroyed
    THEN Done(s, op, "Environment has been destroyed", NoValue, rt)
    ELSE IF options = <<>>
    THEN Done(s, op, NoError, NoValue, rt)
    ELSE LET processed == processOptions(s, envID, options)
             s1 == [processed.s EXCEPT !.g = ExtendEnv(@, envID, processed.processedOptions)]
         IN Done(s1, op, s1.g.res.error, NoValue, rt \o <<"extendEnv">>)

\* Env.new: a rejected promise hands no Env object to the caller; the object
\* built before a failing extend stays behind, held by nobody.
Env_new(s, functions, options) ==
    LET ser == serializeFunctionDefs(s, functions)
        s1 == [ser.s EXCEPT !.g = CreateEnv(@, ser.defs)]
        envID == s1.g.res.value
    IN IF s1.g.res.error # NoError
       THEN Done(s1, "Env.new", s1.g.res.error, NoValue, <<"createEnv">>)
       ELSE LET s2 == [s1 EXCEPT !.envObjs = Put(@, envID, [destroyed |-> FALSE, held |-> TRUE])]
                s3 == extendWithOptions(s2, "Env.new", envID, options, <<"createEnv">>)
            IN IF s3.out.err # NoError
               THEN [s3 EXCEPT !.envObjs[envID].held = FALSE]
               ELSE [s3 EXCEPT !.out.val = envID]

Env_extend(s, envID, options) == extendWithOptions(s, "Env.extend", envID, options, <<>>)

Env_compile(s, envID, expr) ==
    IF s.envObjs[envID].destroyed
    THEN Done(s, "Env.compile", "Environment has been destroyed", NoValue, <<>>)
    ELSE LET s1 == [s EXCEPT !.g = Compile(@, envID, expr)] IN
         IF s1.g.res.error # NoError
         THEN Done(s1, "Env.compile", s1.g.res.error, NoValue, <<"compileExpr">>)
         ELSE Done([s1 EXCEPT !.progObjs = Put(@, s1.g.res.value,
                                                [destroyed |-> FALSE, held |-> TRUE])],
                   "Env.compile", NoError, s1.g.res.value, <<"compileExpr">>)

\* compileDetailed resolves with the handle and the issues of the result
resolveDetailed(s1) ==
    IF s1.g.res.error # NoError
    THEN [s1 EXCEPT !.out = DoneDetailed(s1, "Env.compileDetailed", s1.g.res.error,
                                         NoValue, <<"compileExprDetailed">>)]
    ELSE [s1 EXCEPT !.progObjs = Put(@, s1.g.res.value,
                                     [destroyed |-> FALSE, held |-> TRUE]),
                    !.out = DoneDetailed(s1, "Env.compileDetailed", NoError,
                                         s1.g.res.value, <<"compileExprDetailed">>)]

Env_compileDetailed(s, envID, expr) ==
    IF s.envObjs[envID].destroyed
    THEN Done(s, "Env.compileDetailed", "Environment has been destroyed", NoValue, <<>>)
    ELSE resolveDetailed([s EXCEPT !.g = CompileDetailed(@, envID, expr)])

Env_typecheck(s, envID, expr) ==
    IF s.envObjs[envID].destroyed
    THEN Done(s, "Env.typecheck", "Environment has been destroyed", NoValue, <<>>)
    ELSE LET s1 == [s EXCEPT !.g = Typecheck(@, envID, expr)] IN
         Done(s1, "Env.typecheck", s1.g.res.error, NoValue, <<"typecheckExpr">>)

\* the runtime's error is logged with console.warn and not thrown
Env_destroy(s, envID) ==
    IF s.envObjs[envID].destroyed
    THEN Done(s, "Env.destroy", NoError, NoValue, <<>>)
    ELSE LET s1 == [s EXCEPT !.g = DestroyEnv(@, envID),
                             !.envObjs[envID].destroyed = TRUE] IN
         Done(s1, "Env.destroy", NoError, NoValue, <<"destroyEnv">>)

Program_eval(s, programID) ==
    IF s.progObjs[programID].destroyed
    THEN Done(s, "Program.eval", "Program has been destroyed", NoValue, <<>>)
    ELSE LET s1 == [s EXCEPT !.g = Eval(@, programID)] IN
         Done(s1, "Program.eval", s1.g.res.error, s1.g.res.value, <<"evalProgram">>)

\* slip: the "already destroyed" early return is left out
Program_destroy_NoGuard(s, programID) ==
    LET s1 == [s EXCEPT !.g = DestroyProgram(@, programID),
                        !.progObjs[programID].destroyed = TRUE] IN
    Done(s1, "Program.destroy", NoError, NoValue, <<"destroyProgram">>)

Program_destroy(s, programID) ==
    IF s.progObjs[programID].destroyed
    THEN Done(s, "Program.destroy", NoError, NoValue, <<>>)
    ELSE LET s1 == [s EXCEPT !.g = DestroyProgram(@, programID),
                             !.progObjs[programID].destroyed = TRUE] IN
         Done(s1, "Program.destroy", NoError, NoValue, <<"destroyProgram">>)

\* ------------------------------------------------------------- actions
HeldEnvs == {e \in DOMAIN envObjs : envObjs[e].held}
HeldProgs == {p \in DOMAIN progObjs : progObjs[p].held}
EnvHandles == 1..MaxEnvs
ProgHandles == 1..MaxProgs

\* a compile that would succeed needs a free program handle within the bound
CompileInBound(envID, expr) ==
    IF programIDCounter < MaxProgs THEN TRUE
    ELSE Compile(G, envID, expr).res.error # NoError

ExtendInBound(envID, options) ==
    IF envID \notin DOMAIN envs THEN TRUE
    ELSE Len(envs[envID].env.opts) + Len(options) <= MaxOpts

\* a detailed compile that gets past the destroyed check takes a compilation id
CompileDetailedInBound(envID, expr) ==
    IF CompileDetailed(G, envID, expr).compilationIDCounter = compilationIDCounter THEN TRUE
    ELSE compilationIDCounter < MaxCompilations /\ CompileInBound(envID, expr)

EnvNewFrom(functionLists, optionLists, maxEnvs) ==
    /\ envIDCounter < maxEnvs
    /\ \E functions \in functionLists, options \in optionLists :
           SetS(Env_new(S, functions, options))

EnvNew == EnvNewFrom(FunctionLists, {<<>>}, MaxEnvs)

EnvNewWithOptions == EnvNewFrom(SmallFunctionLists, OptionLists, MaxEnvsWithOptions)

\* Env.new with an Options.astValidators option
EnvNewWithValidators ==
    EnvNewFrom(SmallFunctionLists, {<<o>> : o \in ValidatorOptions}, MaxEnvsWithOptions)

\* Env.extend with an Options.astValidators option
EnvExtendValidators ==
    \E envID \in HeldEnvs, o \in ValidatorOptions :
        /\ ExtendInBound(envID, <<o>>)
        /\ SetS(Env_extend(S, envID, <<o>>))

\* Env.new with a validator option whose callback fails
EnvNewWithFailingValidators ==
    EnvNewFrom(SmallFunctionLists, {<<o>> : o \in FailingOptions}, MaxEnvsWithOptions)

\* Env.new with validators that raise an issue on every node
EnvNewWithTracers ==
    EnvNewFrom(SmallFunctionLists, {<<o>> : o \in TraceOptions}, MaxEnvsWithOptions)

\* the engine's check runs a validator of an environment on a checked AST
\* (a compile without compilation context); out keeps what the traversal
\* raised and the errors reported to the engine
ValidateAST ==
    \E envID \in DOMAIN envs, a \in SampleASTs :
        \E k \in 1..Len(ValidatorsOf(envs[envID].env)) :
            LET v == ValidatorsOf(envs[envID].env)[k] IN
            /\ ~envs[envID].destroyed
            /\ out' = [op |-> "Validate", size |-> a.size, v |-> v,
                       raised |-> traverseExpr(G, v.validatorFunctionIds, a.expr, a.sourceInfo),
                       errors |-> Validate(G, v, a, InputDescription, <<>>).errors]
            /\ UNCHANGED <<envs, programs, functionRefs, envIDCounter, programIDCounter,
                           compilationIDCounter, compilationRegistry, registry,
                           implIDCounter, envObjs, progObjs, hist, inProgress,
                           isInitialized, initPromise>>

\* a detailed compile is called and runs up to its check
compileExprDetailedBegin ==
    \E envID \in EnvHandles, expr \in Exprs :
        LET b == CompileDetailedBegin(G, envID, expr) IN
        /\ compilationIDCounter < MaxCompilations
        /\ programIDCounter + Len(inProgress) < MaxProgs
        /\ SetG(b.g)
        /\ inProgress' = inProgress \o b.frames
        /\ out' = IF b.frames = <<>>
                  THEN [op |-> "compileExprDetailed", err |-> b.g.res.error,
                        val |-> NoValue, issues |-> b.g.res.issues,
                        envID |-> envID, exprStr |-> expr]
                  ELSE out
        /\ UNCHANGED <<implIDCounter, envObjs, progObjs>>

\* the check of a call in progress, with its validators
compileExprDetailedCheck ==
    \E i \in 1..Len(inProgress) :
        LET c == CompileDetailedCheck(G, inProgress[i]) IN
        /\ inProgress[i].pc = "check"
        /\ SetG(c.g)
        /\ inProgress' = [inProgress EXCEPT ![i] = c.frame]
        /\ UNCHANGED <<implIDCounter, envObjs, progObjs, out>>

\* a call in progress returns
compileExprDetailedEnd ==
    \E i \in 1..Len(inProgress) :
        LET g == CompileDetailedEnd(G, inProgress[i]) IN
        /\ inProgress[i].pc = "return"
        /\ SetG(g)
        /\ inProgress' = SubSeq(inProgress, 1, i - 1)
                             \o SubSeq(inProgress, i + 1, Len(inProgress))
        /\ out' = [op |-> "compileExprDetailed", err |-> g.res.error,
                   val |-> g.res.value, issues |-> g.res.issues,
                   envID |-> inProgress[i].envID, exprStr |-> inProgress[i].exprStr]
        /\ UNCHANGED <<implIDCounter, envObjs, progObjs>>

EnvExtend ==
    \E envID \in HeldEnvs, options \in OptionLists :
        /\ ExtendInBound(envID, options)
        /\ SetS(Env_extend(S, envID, options))

EnvCompileDetailed ==
    \E envID \in HeldEnvs, expr \in Exprs :
        /\ CompileDetailedInBound(envID, expr)
        /\ SetS(Env_compileDetailed(S, envID, expr))

EnvCompile ==
    \E envID \in HeldEnvs, expr \in Exprs :
        /\ CompileInBound(envID, expr)
        /\ SetS(Env_compile(S, envID, expr))

EnvTypecheck ==
    \E envID \in HeldEnvs, expr \in Exprs : SetS(Env_typecheck(S, envID, expr))

EnvDestroy == \E envID \in HeldEnvs : SetS(Env_destroy(S, envID))

ProgramEval == \E programID \in HeldProgs : SetS(Program_eval(S, programID))

ProgramDestroy == \E programID \in HeldProgs : SetS(Program_destroy(S, programID))

destroyEnv ==
    \E envID \in EnvHandles :
        /\ Direct(DestroyEnv(G, envID))

destroyProgram ==
    \E programID \in ProgHandles :
        /\ Direct(DestroyProgram(G, programID))

\* destroyProgram is called: the call has not run yet
destroyProgramCall ==
    \E programID \in ProgHandles :
        /\ Len(inProgress) < MaxCalls
        /\ inProgress' = Append(inProgress, DestroyProgramCall(programID))
        /\ UNCHANGED <<envs, programs, functionRefs, envIDCounter, programIDCounter,
                       compilationIDCounter, compilationRegistry, registry,
                       implIDCounter, envObjs, progObjs, hist, out,
                       isInitialized, initPromise>>

\* a call of destroyProgram makes its next read or write
destroyProgramStep ==
    \E i \in 1..Len(inProgress) :
        LET r == DestroyProgramStep(G, inProgress[i])
            raced == \E j \in 1..Len(inProgress) : j # i /\ inProgress[j].pc # "lookup"
        IN /\ SetG([r.g EXCEPT !.hist.raced = @ \/ raced])
           /\ inProgress' = SubSeq(inProgress, 1, i - 1) \o r.frames
                                 \o SubSeq(inProgress, i + 1, Len(inProgress))
           /\ out' = IF r.frames = <<>>
                     THEN Outcome(r.g.res.fn, r.g.res.error, r.g.res.value,
                                  <<r.g.res.fn>>, r.g.res.error, r.g.res.cb)
                     ELSE out
           /\ UNCHANGED <<implIDCounter, envObjs, progObjs>>

\* the wrapper calls that build the tables, made while no destroyProgram
\* call is in progress
EnvNewSmall == inProgress = <<>> /\ EnvNewFrom(SmallFunctionLists, {<<>>}, MaxEnvsWithOptions)

EnvCompileAlone == inProgress = <<>> /\ EnvCompile

EnvDestroyAlone == inProgress = <<>> /\ EnvDestroy

\* compileExpr is called and runs up to env.Compile
compileExprBegin ==
    \E envID \in EnvHandles, expr \in Exprs :
        LET b == CompileBegin(G, envID, expr) IN
        /\ Len(inProgress) < MaxCalls
        /\ programIDCounter + Len(inProgress) < MaxProgs
        /\ SetG(b.g)
        /\ inProgress' = inProgress \o b.frames
        /\ out' = IF b.frames = <<>>
                  THEN [op |-> "compileExpr", err |-> b.g.res.error, val |-> NoValue,
                        envID |-> envID, exprStr |-> expr]
                  ELSE out
        /\ UNCHANGED <<implIDCounter, envObjs, progObjs>>

\* a validator function of the host, called by the check of a compile in
\* progress, calls destroyEnv on the environment that is being compiled in
validatorCallsDestroyEnv ==
    \E i \in 1..Len(inProgress) :
        /\ inProgress[i].pc = "check"
        /\ CheckOK(inProgress[i].envState.env, inProgress[i].exprStr)
        /\ \E k \in 1..Len(ValidatorsOf(inProgress[i].envState.env)) :
               ValidatorsOf(inProgress[i].envState.env)[k].validatorFunctionIds # <<>>
        /\ Direct(DestroyEnv(G, inProgress[i].envID))

\* env.Compile of a call in progress returns
compileExprCheck ==
    \E i \in 1..Len(inProgress) :
        LET c == CompileCheck(G, inProgress[i]) IN
        /\ inProgress[i].pc = "check"
        /\ SetG(c.g)
        /\ inProgress' = [inProgress EXCEPT ![i] = c.frame]
        /\ UNCHANGED <<implIDCounter, envObjs, progObjs, out>>

\* a call in progress stores its program and returns
compileExprEnd ==
    \E i \in 1..Len(inProgress) :
        LET g == CompileEnd(G, inProgress[i]) IN
        /\ inProgress[i].pc = "store"
        /\ SetG(g)
        /\ inProgress' = SubSeq(inProgress, 1, i - 1)
                             \o SubSeq(inProgress, i + 1, Len(inProgress))
        /\ out' = [op |-> "compileExpr", err |-> g.res.error, val |-> g.res.value,
                   envID |-> inProgress[i].envID, exprStr |-> inProgress[i].exprStr]
        /\ UNCHANGED <<implIDCounter, envObjs, progObjs>>

\* ------------------------------------------- type descriptors (main_test.go)
\* A decoded JSON value: a string, a number, or an object, which is a
\* record of its keys next to the tag.
Str(s) == [json |-> "string", s |-> s]

Num(n) == [json |-> "number", n |-> n]

IsString(m, key) == key \in DOMAIN m /\ m[key].json = "string"

IsMap(m, key) == key \in DOMAIN m /\ m[key].json = "object"

\* exprpb.Type values as decls builds them
Primitive(p) == [typeKind |-> "Primitive", primitive |-> p]

WellKnown(w) == [typeKind |-> "WellKnown", wellKnown |-> w]

Dyn == [typeKind |-> "Dyn"]

Null == [typeKind |-> "Null"]

NewListType(elem) == [typeKind |-> "ListType", elemType |-> elem]

NewMapType(key, value) == [typeKind |-> "MapType", keyType |-> key, valueType |-> value]

\* parseTypeName without the case of "duration"
parseTypeName_NoDuration(typeName) ==
    CASE typeName = "bool" -> Primitive("BOOL")
      [] typeName = "int" -> Primitive("INT64")
      [] typeName = "uint" -> Primitive("UINT64")
      [] typeName = "double" -> Primitive("DOUBLE")
      [] typeName = "string" -> Primitive("STRING")
      [] typeName = "bytes" -> Primitive("BYTES")
      [] typeName = "timestamp" -> WellKnown("TIMESTAMP")
      [] typeName = "null" -> Null
      [] OTHER -> Dyn

parseTypeName(typeName) ==
    CASE typeName = "bool" -> Primitive("BOOL")
      [] typeName = "int" -> Primitive("INT64")
      [] typeName = "uint" -> Primitive("UINT64")
      [] typeName = "double" -> Primitive("DOUBLE")
      [] typeName = "string" -> Primitive("STRING")
      [] typeName = "bytes" -> Primitive("BYTES")
      [] typeName = "timestamp" -> WellKnown("TIMESTAMP")
      [] typeName = "duration" -> WellKnown("DURATION")
      [] typeName = "null" -> Null
      [] typeName \in {"dyn", "any"} -> Dyn
      [] OTHER -> Dyn

RECURSIVE parseTypeDef(_)
parseTypeDef(typeDef) ==
    IF typeDef.json = "string" THEN parseTypeName(typeDef.s)
    ELSE IF typeDef.json # "object" THEN Dyn
    ELSE IF IsString(typeDef, "kind") /\ typeDef.kind.s = "list" THEN
        IF IsMap(typeDef, "elementType") \/ IsString(typeDef, "elementType")
        THEN NewListType(parseTypeDef(typeDef.elementType))
        ELSE NewListType(Dyn)
    ELSE IF IsString(typeDef, "kind") /\ typeDef.kind.s = "map" THEN
        LET keyType == IF IsString(typeDef, "keyType") THEN parseTypeName(typeDef.keyType.s)
                       ELSE IF IsMap(typeDef, "keyType") THEN parseTypeDef(typeDef.keyType)
                       ELSE Primitive("STRING")
            valueType == IF IsMap(typeDef, "valueType") \/ IsString(typeDef, "valueType")
                         THEN parseTypeDef(typeDef.valueType)
                         ELSE Dyn
        IN NewMapType(keyType, valueType)
    ELSE IF IsString(typeDef, "type") THEN parseTypeName(typeDef.type.s)
    ELSE IF IsString(typeDef, "name") THEN parseTypeName(typeDef.name.s)
    ELSE Dyn

RECURSIVE typeToJSON(_)
typeToJSON(exprType) ==
    CASE exprType.typeKind = "Primitive" ->
            (CASE exprType.primitive = "BOOL" -> Str("bool")
               [] exprType.primitive = "INT64" -> Str("int")
               [] exprType.primitive = "UINT64" -> Str("uint")
               [] exprType.primitive = "DOUBLE" -> Str("double")
               [] exprType.primitive = "STRING" -> Str("string")
               [] exprType.primitive = "BYTES" -> Str("bytes")
               [] OTHER -> Str("dyn"))
      [] exprType.typeKind = "WellKnown" ->
            (CASE exprType.wellKnown = "TIMESTAMP" -> Str("timestamp")
               [] exprType.wellKnown = "DURATION" -> Str("duration")
               [] OTHER -> Str("dyn"))
      [] exprType.typeKind = "ListType" ->
            [json |-> "object", kind |-> Str("list"),
             elementType |-> typeToJSON(exprType.elemType)]
      [] exprType.typeKind = "MapType" ->
            [json |-> "object", kind |-> Str("map"),
             keyType |-> typeToJSON(exprType.keyType),
             valueType |-> typeToJSON(exprType.valueType)]
      [] exprType.typeKind = "Null" -> Str("null")
      [] exprType.typeKind = "Dyn" -> Str("dyn")
      [] OTHER -> Str("dyn")

\* the primitive names of the wire format
PrimitiveNames == {"bool", "int", "uint", "double", "string", "bytes", "dyn",
                   "null", "timestamp", "duration"}

ListDescriptor(elementType) == [json |-> "object", kind |-> Str("list"), elementType |-> elementType]

MapDescriptor(keyType, valueType) ==
    [json |-> "object", kind |-> Str("map"), keyType |-> keyType, valueType |-> valueType]

\* the descriptors built from the primitive names with at most depth
\* levels of list and map around them; a key is a primitive name or a
\* list of strings
RECURSIVE Descriptors(_)
Descriptors(depth) ==
    IF depth = 0 THEN {Str(n) : n \in PrimitiveNames}
    ELSE LET inner == Descriptors(depth - 1)
             keys == {Str(n) : n \in PrimitiveNames} \cup {ListDescriptor(Str("string"))}
         IN inner \cup {ListDescriptor(d) : d \in inner}
                  \cup {MapDescriptor(k, d) : k \in keys, d \in inner}

\* values that are no descriptor of the wire format: unknown names, values
\* of other JSON types, objects of another shape, composites with a part
\* missing or not a descriptor
Malformed ==
    LET base == {Str("any"), Str("integer"), Str(""), Num(5),
                 [json |-> "object"],
                 [json |-> "object", type |-> Str("int")],
                 [json |-> "object", name |-> Str("bool")],
                 [json |-> "object", type |-> Num(5)],
                 [json |-> "object", type |-> Num(5), name |-> Str("bytes")],
                 [json |-> "object", kind |-> Num(5)],
                 [json |-> "object", kind |-> Str("set"), elementType |-> Str("int")],
                 [json |-> "object", kind |-> Str("set"), type |-> Str("uint")],
                 [json |-> "object", kind |-> Str("list")],
                 [json |-> "object", kind |-> Str("list"), type |-> Str("int")],
                 [json |-> "object", kind |-> Str("map")],
                 [json |-> "object", kind |-> Str("map"), keyType |-> Str("int")],
                 [json |-> "object", kind |-> Str("map"), valueType |-> Str("int")]}
        parts == base \cup {Str("int")}
    IN base \cup {ListDescriptor(d) : d \in base}
            \cup ({MapDescriptor(k, d) : k \in parts, d \in parts}
                      \ {MapDescriptor(Str("int"), Str("int"))})

TypeDefs == Descriptors(MaxTypeDepth) \cup Malformed

\* the type definition that has arrived is parsed (that of a variable
\* declaration or of a parameter of a function definition of createEnv)
parseType ==
    /\ out.op = "typeDef"
    /\ out' = [op |-> "parseTypeDef", typeDef |-> out.typeDef,
               type |-> parseTypeDef(out.typeDef)]
    /\ UNCHANGED <<envs, programs, functionRefs, envIDCounter, programIDCounter,
                   compilationIDCounter, compilationRegistry, registry,
                   implIDCounter, envObjs, progObjs, hist, inProgress,
                   isInitialized, initPromise>>

\* the parsed type is reported back (the "type" of a typecheck result)
reportType ==
    /\ out.op = "parseTypeDef"
    /\ out' = [op |-> "typeToJSON", typeDef |-> out.typeDef, type |-> out.type,
               json |-> typeToJSON(out.type)]
    /\ UNCHANGED <<envs, programs, functionRefs, envIDCounter, programIDCounter,
                   compilationIDCounter, compilationRegistry, registry,
                   implIDCounter, envObjs, progObjs, hist, inProgress,
                   isInitialized, initPromise>>

\* -------------------------------------------------- lib/index.ts, init()
\* the callers of init(): the exported function itself and the wrapper
\* methods, which all begin with `await init()`
InitCallers == {"init", "Env.new", "Env.compile", "Program.eval"}

\* initPath without the test of initPromise
initPath_IgnoresPromise(initialized, promise) ==
    IF initialized THEN "return" ELSE "create"

\* the branch an init() call takes: `if (isInitialized) return`, `if
\* (initPromise) return initPromise`, or the creation of the promise
initPath(initialized, promise) ==
    IF initialized THEN "return"
    ELSE IF promise # "null" THEN "share"
    ELSE "create"

\* one call of init(), run up to its return: the function has no await,
\* and the executor of `new Promise` runs inside the call. The frame
\* records the caller, the branch taken, whether this call has called
\* WebAssembly.instantiate, and where the caller's `await` stands
init ==
    \E caller \in InitCallers, wasmExists \in BOOLEAN :
        LET path == initPath(isInitialized, initPromise)
            frame == [op |-> "init", caller |-> caller, path |-> path,
                      instantiates |-> path = "create" /\ wasmExists,
                      pc |-> IF path = "return" THEN "returned" ELSE "await"]
        IN
        /\ Len(inProgress) < MaxInitCalls
        /\ path # "create" => wasmExists
        /\ inProgress' = Append(inProgress, frame)
        /\ initPromise' = IF path # "create" THEN initPromise
                          ELSE IF wasmExists THEN "pending" ELSE "rejected"
        /\ UNCHANGED <<envs, programs, functionRefs, envIDCounter, programIDCounter,
                       compilationIDCounter, compilationRegistry, registry,
                       implIDCounter, envObjs, progObjs, hist, out, isInitialized>>

\* WebAssembly.instantiate(...).then: go.run(result.instance);
\* isInitialized = true; resolve()
instantiateThen ==
    /\ initPromise = "pending"
    /\ isInitialized' = TRUE
    /\ initPromise' = "resolved"
    /\ UNCHANGED <<envs, programs, functionRefs, envIDCounter, programIDCounter,
                   compilationIDCounter, compilationRegistry, registry,
                   implIDCounter, envObjs, progObjs, hist, out, inProgress>>

\* WebAssembly.instantiate(...).catch: reject(new Error(...))
instantiateCatch ==
    /\ initPromise = "pending"
    /\ initPromise' = "rejected"
    /\ UNCHANGED <<envs, programs, functionRefs, envIDCounter, programIDCounter,
                   compilationIDCounter, compilationRegistry, registry,
                   implIDCounter, envObjs, progObjs, hist, out, inProgress,
                   isInitialized>>

\* the `await` of a caller continues once the promise it was handed has
\* settled
initSettled ==
    \E i \in DOMAIN inProgress :
        /\ inProgress[i].op = "init"
        /\ inProgress[i].pc = "await"
        /\ initPromise \in {"resolved", "rejected"}
        /\ inProgress' = [inProgress EXCEPT ![i].pc =
                              IF initPromise = "resolved" THEN "returned" ELSE "thrown"]
        /\ UNCHANGED <<envs, programs, functionRefs, envIDCounter, programIDCounter,
                       compilationIDCounter, compilationRegistry, registry,
                       implIDCounter, envObjs, progObjs, hist, out,
                       isInitialized, initPromise>>

\* the state after init() has resolved: go.run has started main, whose
\* tables are empty
Init ==
    /\ envs = <<>>
    /\ programs = <<>>
    /\ functionRefs = <<>>
    /\ envIDCounter = 0
    /\ programIDCounter = 0
    /\ compilationIDCounter = 0
    /\ compilationRegistry = <<>>
    /\ registry = <<>>
    /\ implIDCounter = 0
    /\ envObjs = <<>>
    /\ progObjs = <<>>
    /\ hist = [owner |-> <<>>, envDestroyed |-> {}, programDestroyed |-> {},
               validatorOf |-> <<>>, raced |-> FALSE]
    /\ out = Outcome("none", NoError, NoValue, <<>>, NoError, <<>>)
    /\ inProgress = <<>>
    /\ isInitialized = TRUE
    /\ initPromise = "resolved"

Next ==
    \/ EnvNew
    \/ EnvCompile
    \/ EnvTypecheck
    \/ EnvDestroy
    \/ ProgramEval
    \/ ProgramDestroy
    \/ destroyEnv
    \/ destroyProgram

Spec == Init /\ [][Next]_vars

\* the same runtime with the options of Env.new and Env.extend and with
\* detailed compiles
NextOptions ==
    \/ EnvNewWithOptions
    \/ EnvExtend
    \/ EnvCompile
    \/ EnvCompileDetailed
    \/ EnvTypecheck
    \/ EnvDestroy
    \/ ProgramEval
    \/ ProgramDestroy
    \/ destroyEnv
    \/ destroyProgram

SpecOptions == Init /\ [][NextOptions]_vars

\* the same runtime with AST validators
NextValidators ==
    \/ EnvNewWithValidators
    \/ EnvExtendValidators
    \/ EnvCompile
    \/ EnvCompileDetailed
    \/ EnvTypecheck
    \/ EnvDestroy
    \/ ProgramDestroy

SpecValidators == Init /\ [][NextValidators]_vars

\* the same runtime with validator callbacks that fail
NextFailingValidators ==
    \/ EnvNewWithFailingValidators
    \/ EnvCompile
    \/ EnvCompileDetailed
    \/ EnvTypecheck
    \/ EnvDestroy

SpecFailingValidators == Init /\ [][NextFailingValidators]_vars

\* destroyProgram calls that interleave at their reads and writes
NextRacing ==
    \/ EnvNewSmall
    \/ EnvCompileAlone
    \/ EnvDestroyAlone
    \/ destroyProgramCall
    \/ destroyProgramStep

SpecRacing == Init /\ [][NextRacing]_vars

\* compiles whose validator functions call back into the runtime
NextReentrant ==
    \/ EnvNewWithValidators
    \/ compileExprBegin
    \/ validatorCallsDestroyEnv
    \/ compileExprCheck
    \/ compileExprEnd

SpecReentrant == Init /\ [][NextReentrant]_vars

\* the module of lib/index.ts as it is when it has been loaded and init()
\* has not been called: no WASM instance, no promise
InitModule ==
    /\ envs = <<>>
    /\ programs = <<>>
    /\ functionRefs = <<>>
    /\ envIDCounter = 0
    /\ programIDCounter = 0
    /\ compilationIDCounter = 0
    /\ compilationRegistry = <<>>
    /\ registry = <<>>
    /\ implIDCounter = 0
    /\ envObjs = <<>>
    /\ progObjs = <<>>
    /\ hist = [owner |-> <<>>, envDestroyed |-> {}, programDestroyed |-> {},
               validatorOf |-> <<>>, raced |-> FALSE]
    /\ out = Outcome("none", NoError, NoValue, <<>>, NoError, <<>>)
    /\ inProgress = <<>>
    /\ isInitialized = FALSE
    /\ initPromise = "null"

NextInit ==
    \/ init
    \/ instantiateThen
    \/ instantiateCatch
    \/ initSettled

SpecInit == InitModule /\ [][NextInit]_vars

\* the conversions between type descriptors and types, applied to the
\* descriptors of TypeDefs
NextTypes ==
    \/ parseType
    \/ reportType

\* the runtime of Init with one type definition of TypeDefs arrived
InitTypes ==
    /\ envs = <<>>
    /\ programs = <<>>
    /\ functionRefs = <<>>
    /\ envIDCounter = 0
    /\ programIDCounter = 0
    /\ compilationIDCounter = 0
    /\ compilationRegistry = <<>>
    /\ registry = <<>>
    /\ implIDCounter = 0
    /\ envObjs = <<>>
    /\ progObjs = <<>>
    /\ hist = [owner |-> <<>>, envDestroyed |-> {}, programDestroyed |-> {},
               validatorOf |-> <<>>, raced |-> FALSE]
    /\ \E typeDef \in TypeDefs : out = [op |-> "typeDef", typeDef |-> typeDef]
    /\ inProgress = <<>>
    /\ isInitialized = TRUE
    /\ initPromise = "resolved"

SpecTypes == InitTypes /\ [][NextTypes]_vars

\* the traversal of checked ASTs by the validators of an environment
NextTraversal ==
    \/ EnvNewWithTracers
    \/ ValidateAST

SpecTraversal == Init /\ [][NextTraversal]_vars

\* detailed compiles that overlap: one is started while another is with a
\* validator function of the host
NextOverlapping ==
    \/ EnvNewWithValidators
    \/ compileExprDetailedBegin
    \/ compileExprDetailedCheck
    \/ compileExprDetailedEnd

SpecOverlapping == Init /\ [][NextOverlapping]_vars

\* ------------------------------------------------------------- claims
OwnedBy(envID) == {i \in DOMAIN hist.owner : hist.owner[i] = envID}

ProgramsOf(envID) == {p \in DOMAIN programs : programs[p].envID = envID}

Registered(ids) == ids \cap DOMAIN registry

Tracked(ids) == ids \cap DOMAIN functionRefs

\* the lifecycle tables of a runtime state
Tables(g) == <<g.envs, g.programs, g.functionRefs, g.registry>>

\* C1: once DestroyEnv has succeeded on an environment and DestroyProgram on
\* every program compiled from it, in any order, none of the environment's
\* implementation ids is registered or tracked and neither the environment
\* nor any of its programs has a table entry.
C1_AllDestroyedLeavesNothing ==
    \A e \in hist.envDestroyed :
        ProgramsOf(e) \subseteq hist.programDestroyed =>
            /\ Registered(OwnedBy(e)) = {}
            /\ Tracked(OwnedBy(e)) = {}
            /\ e \notin DOMAIN envs
            /\ ProgramsOf(e) = {}

\* an environment with two functions and two programs, all destroyed
C1_Witness ==
    /\ envIDCounter = 1
    /\ 1 \in hist.envDestroyed
    /\ Cardinality(OwnedBy(1)) = 2
    /\ programIDCounter = 2
    /\ hist.programDestroyed = {1, 2}

\* C2: survivability.  A live program whose environment DestroyEnv has
\* succeeded on still has every implementation id of that environment
\* registered, and Eval on it does not fail.
C2_ProgramSurvivesEnvDestroy ==
    \A p \in DOMAIN programs :
        programs[p].envID \in hist.envDestroyed =>
            /\ OwnedBy(programs[p].envID) \subseteq DOMAIN registry
            /\ Eval(G, p).res.error = NoError

\* C3: for every live program, every implementation id owned by its
\* originating environment is registered in the callback registry.
C3_FunctionsOfLiveProgramsRegistered ==
    \A p \in DOMAIN programs : OwnedBy(programs[p].envID) \subseteq DOMAIN registry

\* C4: a step unregisters a callback or deletes its functionRefs entry only
\* when the owning environment is destroyed by then and no program counted
\* on the entry is left; in particular DestroyProgram on a program of a live
\* environment removes neither.
Dropped(implID) ==
    \/ implID \in DOMAIN registry /\ implID \notin DOMAIN registry'
    \/ implID \in DOMAIN functionRefs /\ implID \notin DOMAIN functionRefs'

Rejected(g) ==
    /\ g.res.error \in {"environment has been destroyed", "environment not found"}
    /\ g.res.value = NoValue
    /\ Tables(g) = Tables(G)
    /\ g.programIDCounter = programIDCounter

C5_DestroyedEnvRejectsCalls ==
    \A e \in hist.envDestroyed :
        /\ \A x \in Exprs :
               /\ Rejected(Compile(G, e, x))
               /\ Rejected(CompileDetailed(G, e, x))
               /\ Rejected(Typecheck(G, e, x))
        /\ \A o \in OptionLists : Rejected(ExtendEnv(G, e, o))

\* the runtime has refused to extend a destroyed environment that is kept
\* for a program compiled earlier
C5_Witness ==
    /\ out.op = "Env.extend"
    /\ out.rterr = "environment has been destroyed"
    /\ \E p \in DOMAIN programs :
           programs[p].envID \in hist.envDestroyed \cap DOMAIN envs

\* C6: a destroyed environment that still has a live program keeps its
\* entry in envs, flagged destroyed, until the last of its programs is
\* destroyed.
C6_DestroyedEnvKeptWhileProgramsLive ==
    \A e \in hist.envDestroyed :
        ProgramsOf(e) # {} => e \in DOMAIN envs /\ envs[e].destroyed

\* C7: immediate cleanup.  DestroyEnv on an environment without a live
\* program succeeds and, in that call, unregisters every implementation id
\* the environment owns, deletes their functionRefs entries and removes the
\* environment entry.
C7_ImmediateCleanup ==
    \A e \in DOMAIN envs :
        ProgramsOf(e) = {} =>
            LET g == DestroyEnv(G, e) IN
            /\ g.res.error = NoError
            /\ e \notin DOMAIN g.envs
            /\ OwnedBy(e) \cap DOMAIN g.registry = {}
            /\ OwnedBy(e) \cap DOMAIN g.functionRefs = {}

\* DestroyEnv has just cleaned up an environment with functions from which
\* no program was ever compiled
C7_Witness ==
    /\ out.op = "Env.destroy"
    /\ out.rt = <<"destroyEnv">>
    /\ out.rterr = NoError
    /\ programIDCounter = 0
    /\ \E e \in hist.envDestroyed : OwnedBy(e) # {} /\ e \notin DOMAIN envs

\* C8: destroy() on an Env or Program object that is already destroyed
\* returns without error, calls no runtime function and changes nothing.
Untouched(s) ==
    /\ [s.g EXCEPT !.res = NoResult] = G
    /\ s.implIDCounter = implIDCounter
    /\ s.envObjs = envObjs
    /\ s.progObjs = progObjs

C8_SecondDestroyIsNoOp ==
    /\ \A e \in DOMAIN envObjs :
           envObjs[e].destroyed =>
               LET s == Env_destroy(S, e) IN
               Untouched(s) /\ s.out.err = NoError /\ s.out.rt = <<>>
    /\ \A p \in DOMAIN progObjs :
           progObjs[p].destroyed =>
               LET s == Program_destroy(S, p) IN
               Untouched(s) /\ s.out.err = NoError /\ s.out.rt = <<>>

\* a second Program.destroy() has returned while another program of the
\* same environment still holds the reference counts
C8_Witness ==
    /\ out.op = "Program.destroy"
    /\ out.rt = <<>>
    /\ \E p \in DOMAIN progObjs : progObjs[p].destroyed
    /\ \E i \in DOMAIN functionRefs : functionRefs[i].refCount > 0

\* C9: DestroyEnv on a handle it has already succeeded on (flagged destroyed
\* or removed from the table) returns success and changes no table and no
\* reference count.
C9_DestroyEnvIdempotent ==
    \A e \in hist.envDestroyed :
        LET g == DestroyEnv(G, e) IN
        g.res.error = NoError /\ Tables(g) = Tables(G)

\* C10: eval on a destroyed program fails, "Program has been destroyed" at
\* the wrapper and "program not found" at the runtime, and neither runs the
\* program nor invokes a host callback.
C10_EvalAfterDestroyFails ==
    /\ \A p \in hist.programDestroyed :
           LET g == Eval(G, p) IN
           /\ g.res.error = "program not found"
           /\ g.res.value = NoValue
           /\ g.res.cb = <<>>
           /\ Tables(g) = Tables(G)
    /\ \A p \in DOMAIN progObjs :
           (progObjs[p].destroyed \/ p \in hist.programDestroyed) =>
               LET s == Program_eval(S, p) IN
               /\ s.out.err = IF progObjs[p].destroyed
                              THEN "Program has been destroyed"
                              ELSE "program not found"
               /\ s.out.val = NoValue
               /\ s.out.cb = <<>>
               /\ Untouched(s)

\* the wrapper of a destroyed program that called a function has rejected eval
C10_Witness ==
    /\ out.op = "Program.eval"
    /\ out.err = "Program has been destroyed"
    /\ hist.programDestroyed # {}
    /\ hist.owner # <<>>

\* C11: isolation.  The call of a program is bound to an implementation id
\* of the program's own environment and Eval invokes that callback and no
\* other, whether or not the environments are destroyed and whichever
\* programs have been destroyed before.
C11_CallsRoutedToOwnImplementation ==
    \A p \in DOMAIN programs :
        LET g == Eval(G, p) IN
        /\ programs[p].prg # NoCall => programs[p].prg \in OwnedBy(programs[p].envID)
        /\ Range(g.res.cb) \subseteq OwnedBy(programs[p].envID)
        /\ g.res.error = NoError /\ programs[p].prg # NoCall =>
               /\ g.res.cb = <<programs[p].prg>>
               /\ g.res.value = 30 + registry[programs[p].prg]

\* two destroyed environments that both declare "add", one live program of
\* each calling it, and an eval that has returned the second variant's sum
C11_Witness ==
    /\ hist.envDestroyed = {1, 2}
    /\ DOMAIN programs = {1, 2}
    /\ programs[1].envID # programs[2].envID
    /\ \A p \in {1, 2} :
           /\ programs[p].envID \in DOMAIN envs
           /\ programs[p].prg = BoundCall(envs[programs[p].envID].env, "add")
    /\ out.op = "Program.eval"
    /\ out.val = 31
    /\ Len(out.cb) = 1

\* C12: the refCount of every functionRefs entry is the number of live
\* programs compiled from the environment that owns the entry.
C12_RefCountCountsLivePrograms ==
    \A i \in DOMAIN functionRefs :
        /\ functionRefs[i].envID = hist.owner[i]
        /\ functionRefs[i].refCount = Cardinality(ProgramsOf(functionRefs[i].envID))

\* two programs were compiled from an environment with a function, one by
\* each kind of compile, and one of them has been destroyed since
C12_Witness ==
    /\ programIDCounter = 2
    /\ compilationIDCounter = 1
    /\ Cardinality(hist.programDestroyed) = 1
    /\ \E i \in DOMAIN functionRefs : functionRefs[i].refCount = 1

\* C13: no refCount is negative, and an entry of a destroyed environment is
\* in functionRefs only with a positive count; a callback of a destroyed
\* environment is registered only while such an entry exists.
C13_NoUnusedRegistrationOfDestroyedEnv ==
    /\ \A i \in DOMAIN functionRefs :
           /\ functionRefs[i].refCount >= 0
           /\ functionRefs[i].refCount = 0 =>
                  /\ functionRefs[i].envID \notin hist.envDestroyed
                  /\ functionRefs[i].envID \in DOMAIN envs
                  /\ ~envs[functionRefs[i].envID].destroyed
    /\ \A i \in DOMAIN hist.owner \cap DOMAIN registry :
           hist.owner[i] \in hist.envDestroyed =>
               i \in DOMAIN functionRefs /\ functionRefs[i].refCount > 0

\* the last program of a destroyed environment has just been destroyed and
\* took the environment's registrations with it
C13_Witness ==
    /\ out.op = "Program.destroy"
    /\ out.rt = <<"destroyProgram">>
    /\ \E e \in hist.envDestroyed :
           /\ OwnedBy(e) # {}
           /\ ProgramsOf(e) = {}
           /\ hist.programDestroyed # {}
           /\ e \notin DOMAIN envs
           /\ Tracked(OwnedBy(e)) = {}

\* C14: the callback an Env object registers for an AST validator has a
\* functionRefs entry owned by its environment while it is registered, and
\* is not registered any more once the environment is destroyed and no
\* program of it is left.
C14_ValidatorCallbacksTrackedAndReleased ==
    \A i \in DOMAIN hist.validatorOf :
        LET e == hist.validatorOf[i] IN
        /\ i \in DOMAIN registry =>
               i \in DOMAIN functionRefs /\ functionRefs[i].envID = e
        /\ (e \in hist.envDestroyed /\ ProgramsOf(e) = {}) => i \notin DOMAIN registry

\* C15: a CreateEnv that fails, in resolving the options or in building the
\* environment, returns an error and no handle and leaves envs and
\* functionRefs as they were, for fresh implementation ids and for ids that
\* are tracked already.
FunctionDefsFrom(functions, base) ==
    [i \in 1..Len(functions) |-> [name |-> functions[i].name, implID |-> base + i]]

C15_CreateEnvAtomicOnFailure ==
    \A functions \in FunctionLists, options \in OptionLists, base \in {0, implIDCounter} :
        LET g == CreateEnvWithOptions(G, FunctionDefsFrom(functions, base), options) IN
        g.res.error # NoError =>
            /\ g.res.value = NoValue
            /\ g.envs = envs
            /\ g.functionRefs = functionRefs
            /\ g.programs = programs

\* the build of a second environment has failed while the first one, its
\* function and a program are in the tables
C15_Witness ==
    /\ out.op = "Env.new"
    /\ out.rterr = "failed to create CEL environment"
    /\ DOMAIN envs = {1}
    /\ envIDCounter = 2
    /\ DOMAIN functionRefs # {}
    /\ programs # <<>>

\* what the validator functions of one ASTValidators option raise on an
\* expression, in traversal order
RaisedBy(v, exprStr) ==
    traverseExpr(G, v.validatorFunctionIds, AST(exprStr).expr, AST(exprStr).sourceInfo)

RECURSIVE RaisedByAll(_, _)
RaisedByAll(validators, exprStr) ==
    IF validators = <<>> THEN <<>>
    ELSE RaisedBy(Head(validators), exprStr) \o RaisedByAll(Tail(validators), exprStr)

Raised(envID, exprStr) == RaisedByAll(ValidatorsOf(envs[envID].env), exprStr)

Severities(issues) == {issues[k].severity : k \in 1..Len(issues)}

\* the live environments and the expressions that pass the engine's own
\* parse and type check in them
Checkable == {c \in (DOMAIN envs) \X Exprs :
                 ~envs[c[1]].destroyed /\ CheckOK(envs[c[1]].env, c[2])}

\* a compile that returned an error and no handle and made no program
Blocked(g) ==
    /\ g.res.error # NoError
    /\ g.res.value = NoValue
    /\ Tables(g) = Tables(G)
    /\ g.programIDCounter = programIDCounter

\* a compile that returned a new program handle
Compiled(g) ==
    /\ g.res.error = NoError
    /\ g.res.value = programIDCounter + 1
    /\ g.res.value \in DOMAIN g.programs

Stripped(issue) ==
    [severity |-> issue.severity, message |-> issue.message, location |-> issue.location]

\* the entry of the engine error made of a raised issue
Escalates(entry, issue, exprStr) ==
    /\ entry.severity = "error"
    /\ Len(entry.message) >= Len(issue.message)
    /\ SubSeq(entry.message, 1, Len(issue.message)) = issue.message
    /\ entry.location = {LocationOfID(exprStr, issue.nodeID)}

\* C16: when a validator raises an error-severity issue, Compile and
\* CompileDetailed fail without a handle, a program entry or a count
\* change, whatever failOnWarning and includeWarnings are, and the detailed
\* issues have one error-severity entry for each such raised error.
C16_ErrorIssueBlocksCompile ==
    \A c \in Checkable :
        LET raised == Raised(c[1], c[2])
            d == CompileDetailed(G, c[1], c[2])
        IN "error" \in Severities(raised) =>
            /\ Blocked(Compile(G, c[1], c[2]))
            /\ Blocked(d)
            /\ \A k \in 1..Len(raised) :
                   raised[k].severity = "error" =>
                       Cardinality({j \in 1..Len(d.res.issues) :
                                       Escalates(d.res.issues[j], raised[k], c[2])})
                         = Cardinality({j \in 1..Len(raised) :
                                           /\ raised[j].severity = "error"
                                           /\ raised[j].message = raised[k].message
                                           /\ raised[j].nodeID = raised[k].nodeID})

\* a detailed compile has failed on a validator's error in an environment
\* whose validators have failOnWarning and includeWarnings off
C16_Witness ==
    /\ out.op = "Env.compileDetailed"
    /\ out.rterr = "compilation error"
    /\ \E j \in 1..Len(out.issues) :
           out.issues[j].severity = "error" /\ out.issues[j].message = <<"forbidden">>
    /\ \E e \in DOMAIN envs :
           /\ ~envs[e].destroyed
           /\ ValidatorsOf(envs[e].env) # <<>>
           /\ \A k \in 1..Len(ValidatorsOf(envs[e].env)) :
                  /\ ~ValidatorsOf(envs[e].env)[k].failOnWarning
                  /\ ~ValidatorsOf(envs[e].env)[k].includeWarnings

\* C17: with failOnWarning off in every validator option and only warnings
\* and infos raised, CompileDetailed returns a program handle; with
\* includeWarnings on as well its issues are exactly the raised issues, in
\* order, with the severity, message and location as raised.
C17_WarningsDoNotBlock ==
    \A c \in Checkable :
        LET validators == ValidatorsOf(envs[c[1]].env)
            raised == Raised(c[1], c[2])
            d == CompileDetailed(G, c[1], c[2])
        IN (/\ \A k \in 1..Len(validators) : ~validators[k].failOnWarning
            /\ "error" \notin Severities(raised)) =>
               /\ Compiled(d)
               /\ (\A k \in 1..Len(validators) : validators[k].includeWarnings) =>
                      d.res.issues = [k \in 1..Len(raised) |-> Stripped(raised[k])]

\* a detailed compile has succeeded with a warning and a located info in
\* its issues
C17_Witness ==
    /\ out.op = "Env.compileDetailed"
    /\ out.err = NoError
    /\ out.val \in DOMAIN programs
    /\ Len(out.issues) = 2
    /\ out.issues[1].severity = "warning"
    /\ out.issues[2].severity = "info" /\ out.issues[2].location # {}

\* C18: a warning raised by a validator option with failOnWarning on fails
\* Compile and CompileDetailed whatever includeWarnings is; with
\* failOnWarning off everywhere and no error raised, both succeed.
C18_FailOnWarningBlocks ==
    \A c \in Checkable :
        LET validators == ValidatorsOf(envs[c[1]].env)
            raised == Raised(c[1], c[2])
        IN /\ (\E k \in 1..Len(validators) :
                   /\ validators[k].failOnWarning
                   /\ "warning" \in Severities(RaisedBy(validators[k], c[2]))) =>
                  /\ Blocked(Compile(G, c[1], c[2]))
                  /\ Blocked(CompileDetailed(G, c[1], c[2]))
           /\ (/\ \A k \in 1..Len(validators) : ~validators[k].failOnWarning
               /\ "error" \notin Severities(raised)) =>
                  /\ Compiled(Compile(G, c[1], c[2]))
                  /\ Compiled(CompileDetailed(G, c[1], c[2]))

\* C19: with failOnWarning on and one warning as the only raised issue, the
\* issues of CompileDetailed are two entries: the escalated error with the
\* engine's location and the warning as raised.
C19_EscalatedWarningListedTwice ==
    \A c \in Checkable :
        LET validators == ValidatorsOf(envs[c[1]].env)
            raised == Raised(c[1], c[2])
            issues == CompileDetailed(G, c[1], c[2]).res.issues
        IN (/\ Len(validators) = 1
            /\ validators[1].failOnWarning
            /\ Len(raised) = 1
            /\ raised[1].severity = "warning") =>
               /\ Len(issues) = 2
               /\ Escalates(issues[1], raised[1], c[2])
               /\ issues[2] = Stripped(raised[1])

\* C20: no compilation context is registered between calls, and
\* CompileDetailed leaves none behind on any of its paths.
C20_CompilationContextUnregistered ==
    /\ compilationRegistry = <<>>
    /\ \A e \in EnvHandles, x \in Exprs :
           CompileDetailed(G, e, x).compilationRegistry = <<>>

\* a detailed compile has succeeded and a later one has failed in the check
C20_Witness ==
    /\ out.op = "Env.compileDetailed"
    /\ out.rterr = "compilation error"
    /\ compilationIDCounter = 2
    /\ programs # <<>>

\* C23: Eval of a program whose call is bound to an implementation id that
\* is not in the callback registry returns an evaluation error and no
\* value, invokes no callback and changes nothing, at the runtime and
\* through the Program object.
C23_MissingImplementationIsAnError ==
    \A p \in DOMAIN programs :
        (programs[p].prg # NoCall /\ programs[p].prg \notin DOMAIN registry) =>
            /\ LET g == Eval(G, p) IN
               /\ g.res.error = "evaluation error"
               /\ g.res.value = NoValue
               /\ g.res.cb = <<>>
               /\ [g EXCEPT !.res = NoResult] = G
            /\ (p \in DOMAIN progObjs /\ ~progObjs[p].destroyed) =>
                   LET s == Program_eval(S, p) IN
                   /\ s.out.err = "evaluation error"
                   /\ s.out.val = NoValue
                   /\ Untouched(s)

\* an eval has failed on a live program whose implementation is unregistered
C23_Witness ==
    /\ out.op = "Program.eval"
    /\ out.rterr = "evaluation error"
    /\ \E p \in DOMAIN programs :
           programs[p].prg # NoCall /\ programs[p].prg \notin DOMAIN registry

\* C24: handles are never reused.  Every handle in a table or destroyed
\* before is at most the counter of its kind, the counters never decrease,
\* and a handle that enters a table in a step is greater than the counter
\* before the step: it differs from every handle returned before, the
\* removed ones included.
C24_HandlesNeverReused ==
    /\ [](/\ (DOMAIN envs) \cup hist.envDestroyed \subseteq 1..envIDCounter
          /\ (DOMAIN programs) \cup hist.programDestroyed \subseteq 1..programIDCounter)
    /\ [][/\ envIDCounter' >= envIDCounter
          /\ programIDCounter' >= programIDCounter
          /\ (DOMAIN envs') \ (DOMAIN envs) \subseteq (envIDCounter + 1)..envIDCounter'
          /\ (DOMAIN programs') \ (DOMAIN programs)
                 \subseteq (programIDCounter + 1)..programIDCounter'
          /\ (out'.op \in {"Env.new", "Env.compile"} /\ out'.err = NoError) =>
                 out'.val > IF out'.op = "Env.new" THEN envIDCounter
                            ELSE programIDCounter]_vars

\* an environment and a program were created after the first environment
\* and the first program had been removed
C24_Witness ==
    /\ 1 \in hist.envDestroyed
    /\ DOMAIN envs = {2}
    /\ 1 \in hist.programDestroyed
    /\ DOMAIN programs = {2}

\* C25: ExtendEnv changes the stored engine environment of its handle and
\* nothing else (no handle, flag, implementation id list, program entry,
\* reference count or registration), the programs compiled before evaluate
\* as before, and when an option of the list fails the stored environment
\* is unchanged as well.
C25_ExtendEnvChangesOnlyTheEnvironment ==
    \A e \in DOMAIN envs,
       o \in OptionLists \cup {<<[type |-> "OptionalTypes"], [type |-> "Bogus"]>>} :
        LET g == ExtendEnv(G, e, o) IN
        /\ DOMAIN g.envs = DOMAIN envs
        /\ [g EXCEPT !.res = NoResult, !.envs[e].env = envs[e].env] = G
        /\ g.envs[e].env.funcs = envs[e].env.funcs
        /\ g.res.error # NoError => g.envs = envs
        /\ \A p \in DOMAIN programs : Eval(g, p).res = Eval(G, p).res

\* an environment with a function and a program has been extended
C25_Witness ==
    /\ out.op = "Env.extend"
    /\ out.rt = <<"extendEnv">>
    /\ out.rterr = NoError
    /\ \E p \in DOMAIN programs :
           /\ programs[p].prg # NoCall
           /\ programs[p].envID \in DOMAIN envs
           /\ envs[programs[p].envID].env.opts # <<>>

C27_EvalAndTypecheckReadOnly ==
    /\ \A p \in ProgHandles : [Eval(G, p) EXCEPT !.res = NoResult] = G
    /\ \A e \in EnvHandles, x \in Exprs :
           [Typecheck(G, e, x) EXCEPT !.res = NoResult] = G
    /\ \A p \in DOMAIN progObjs : Untouched(Program_eval(S, p))
    /\ \A e \in DOMAIN envObjs, x \in Exprs : Untouched(Env_typecheck(S, e, x))

\* a typecheck has succeeded in an environment with a function and a
\* program that holds its count
C27_Witness ==
    /\ out.op = "Env.typecheck"
    /\ out.rterr = NoError
    /\ out.rt = <<"typecheckExpr">>
    /\ \E i \in DOMAIN functionRefs : functionRefs[i].refCount > 0

\* C28: DestroyProgram on a handle that is not in programs, never returned
\* or destroyed before, returns "program not found" and changes nothing.
C28_DestroyUnknownProgram ==
    \A p \in ProgHandles \cup hist.programDestroyed :
        p \notin DOMAIN programs =>
            LET g == DestroyProgram(G, p) IN
            /\ g.res.error = "program not found"
            /\ [g EXCEPT !.res = NoResult] = G

\* the runtime has refused to destroy program 1 a second time while
\* program 2 holds a count
C28_Witness ==
    /\ out.op = "destroyProgram"
    /\ out.err = "program not found"
    /\ hist.programDestroyed = {1}
    /\ DOMAIN programs = {2}
    /\ \E i \in DOMAIN functionRefs : functionRefs[i].refCount > 0

PermittedBy(v, exprStr) ==
    SelectSeq(RaisedBy(v, exprStr),
              LAMBDA r : r.severity # "error" /\ (v.includeWarnings \/ r.severity # "warning"))

RECURSIVE Permitted(_, _)
Permitted(validators, exprStr) ==
    IF validators = <<>> THEN <<>>
    ELSE PermittedBy(Head(validators), exprStr) \o Permitted(Tail(validators), exprStr)

\* every entry is the engine error of a raised issue, in the order raised
RECURSIVE EntriesFollow(_, _, _)
EntriesFollow(entries, raised, exprStr) ==
    IF entries = <<>> THEN TRUE
    ELSE IF raised = <<>> THEN FALSE
    ELSE IF Escalates(Head(entries), Head(raised), exprStr)
         THEN EntriesFollow(Tail(entries), Tail(raised), exprStr)
         ELSE EntriesFollow(entries, Tail(raised), exprStr)

\* every raised issue has its engine error among the entries, in the order raised
RECURSIVE RaisedFollow(_, _, _)
RaisedFollow(raised, entries, exprStr) ==
    IF raised = <<>> THEN TRUE
    ELSE IF entries = <<>> THEN FALSE
    ELSE IF Escalates(Head(entries), Head(raised), exprStr)
         THEN RaisedFollow(Tail(raised), Tail(entries), exprStr)
         ELSE RaisedFollow(raised, Tail(entries), exprStr)

\* C30: the issues of CompileDetailed are the engine's error entries
\* followed by the collected issues.  The error entries are made of raised
\* issues in the order raised, none of the raised errors missing; the
\* collected issues are the raised non-error issues that includeWarnings
\* permits, as raised and in the order raised.
C30_IssuesOrdered ==
    /\ \A e \in DOMAIN envs, x \in Exprs :
           LET issues == CompileDetailed(G, e, x).res.issues IN
           \A j, k \in 1..Len(issues) :
               (issues[j].severity = "error" /\ issues[k].severity # "error") => j < k
    /\ \A c \in Checkable :
           LET raised == Raised(c[1], c[2])
               issues == CompileDetailed(G, c[1], c[2]).res.issues
               permitted == Permitted(ValidatorsOf(envs[c[1]].env), c[2])
               n == Len(issues) - Len(permitted)
           IN /\ n >= 0
              /\ SubSeq(issues, n + 1, Len(issues))
                     = [k \in 1..Len(permitted) |-> Stripped(permitted[k])]
              /\ EntriesFollow(SubSeq(issues, 1, n), raised, c[2])
              /\ RaisedFollow(SelectSeq(raised, LAMBDA r : r.severity = "error"),
                              SubSeq(issues, 1, n), c[2])

\* a detailed compile has returned the error of one validator followed by
\* the two warnings another validator raised on the literals
C30_Witness ==
    /\ out.op = "Env.compileDetailed"
    /\ out.rt = <<"compileExprDetailed">>
    /\ Len(out.issues) = 3
    /\ out.issues[1].severity = "error"
    /\ out.issues[2].severity = "warning"
    /\ out.issues[3].severity = "warning"
    /\ out.issues[2].location # out.issues[3].location

OwnIssues(envID, exprStr) ==
    IF CheckOK(envs[envID].env, exprStr)
    THEN LET permitted == Permitted(ValidatorsOf(envs[envID].env), exprStr)
         IN [k \in 1..Len(permitted) |-> Stripped(permitted[k])]
    ELSE <<>>

\* C21: the collectors of overlapping detailed compiles are isolated.  The
\* calls in progress are registered under pairwise distinct compilation
\* ids and nothing else is registered; the collector of a call is empty
\* before its check and holds the issues of its own validator invocations
\* after it; the issues a call returns are the issues the same compile
\* returns when no other call is in progress.
C21_CollectorsIsolated ==
    /\ \A i, j \in 1..Len(inProgress) :
           inProgress[i].compilationID = inProgress[j].compilationID => i = j
    /\ DOMAIN compilationRegistry
           = {inProgress[i].compilationID : i \in 1..Len(inProgress)}
    /\ \A i \in 1..Len(inProgress) :
           LET frame == inProgress[i] IN
           /\ frame.compilationID \in DOMAIN compilationRegistry
           /\ compilationRegistry[frame.compilationID]
                  = IF frame.pc = "check" THEN <<>>
                    ELSE OwnIssues(frame.envID, frame.exprStr)
    /\ (out.op = "compileExprDetailed" /\ out.envID \in DOMAIN envs) =>
           out.issues = CompileDetailed([G EXCEPT !.compilationRegistry = <<>>],
                                        out.envID, out.exprStr).res.issues

\* two detailed compiles of different expressions in one environment are in
\* progress, the second one checked, with issues in its collector, while
\* the first one has not been checked
C21_Witness ==
    /\ Len(inProgress) = 2
    /\ inProgress[1].envID = inProgress[2].envID
    /\ inProgress[1].exprStr # inProgress[2].exprStr
    /\ inProgress[1].pc = "check"
    /\ inProgress[2].pc = "return"
    /\ compilationRegistry[inProgress[2].compilationID] # <<>>

\* the number of entries of a sequence that equal x
Count(seq, x) == Cardinality({k \in 1..Len(seq) : seq[k] = x})

\* C31: a detailed compile that succeeds in an environment whose validator
\* options have includeWarnings off lists no warning-severity issue; with
\* includeWarnings on, every warning and info a validator raises is in the
\* issues of the detailed compile, as raised and as many times as raised.
C31_IncludeWarningsSelectsWhatIsListed ==
    \A c \in Checkable :
        LET validators == ValidatorsOf(envs[c[1]].env)
            raised == Raised(c[1], c[2])
            d == CompileDetailed(G, c[1], c[2])
        IN /\ (/\ \A k \in 1..Len(validators) : ~validators[k].includeWarnings
               /\ Compiled(d)) =>
                  "warning" \notin Severities(d.res.issues)
           /\ (\A k \in 1..Len(validators) : validators[k].includeWarnings) =>
                  \A k \in 1..Len(raised) :
                      raised[k].severity \in {"warning", "info"} =>
                          Count(d.res.issues, Stripped(raised[k]))
                              = Count([j \in 1..Len(raised) |-> Stripped(raised[j])],
                                      Stripped(raised[k]))

\* a detailed compile has succeeded and lists the info alone, in an
\* environment whose two validator functions raise a warning and an info
\* and whose option has includeWarnings off
C31_Witness ==
    /\ out.op = "Env.compileDetailed"
    /\ out.err = NoError
    /\ out.val \in DOMAIN programs
    /\ Severities(out.issues) = {"info"}
    /\ \E e \in DOMAIN envs :
           LET validators == ValidatorsOf(envs[e].env) IN
           /\ Len(validators) = 1
           /\ ~validators[1].includeWarnings
           /\ Severities(RaisedBy(validators[1], "lit")) = {"warning", "info"}

\* the function ids of a validator option whose call fails in the bridge
FailingIds(v) ==
    {id \in Range(v.validatorFunctionIds) :
        IF id \in DOMAIN registry THEN registry[id].returns = "function" ELSE TRUE}

C33_RejectedEnvNewLeavesNothing ==
    (out.op = "Env.new" /\ out.err # NoError) =>
        /\ envIDCounter \notin DOMAIN envs
        /\ \A i \in DOMAIN functionRefs : functionRefs[i].envID # envIDCounter

\* no reference count is above the number of live programs of its
\* environment, and no callback of a destroyed environment without
\* programs is registered
NothingLost ==
    /\ \A i \in DOMAIN functionRefs :
           functionRefs[i].refCount = Cardinality(ProgramsOf(functionRefs[i].envID))
    /\ \A i \in DOMAIN hist.owner :
           (hist.owner[i] \in hist.envDestroyed /\ ProgramsOf(hist.owner[i]) = {}) =>
               i \notin DOMAIN registry

\* C34: the steps of a DestroyProgram call run without interruption are
\* DestroyProgram; as long as no call has taken a step while another was
\* between its first and last step, every state without a call in progress
\* has every reference count equal to the number of live programs and no
\* callback registered for a destroyed environment without programs.
C34_SerializedDestroysLoseNothing ==
    /\ \A p \in ProgHandles :
           DestroyProgramRun(G, <<DestroyProgramCall(p)>>) = DestroyProgram(G, p)
    /\ (~hist.raced /\ inProgress = <<>>) => NothingLost

\* two interleaved DestroyProgram calls on the two programs of a destroyed
\* environment have returned, no program is left, and the callback of the
\* environment is still registered with a reference count of one
C34_Witness ==
    /\ hist.raced
    /\ inProgress = <<>>
    /\ hist.programDestroyed = {1, 2}
    /\ programs = <<>>
    /\ \E i \in DOMAIN functionRefs :
           /\ i \in DOMAIN registry
           /\ functionRefs[i].refCount = 1
           /\ functionRefs[i].envID \in hist.envDestroyed

\* C35: the two disposal paths of a handle, destroy() on the object and
\* the finalizer's destroyEnv / destroyProgram on the handle, in either
\* order.  A destroyProgram or Program.destroy() on a handle DestroyProgram
\* has succeeded on, and a destroyEnv or Env.destroy() on a handle
\* DestroyEnv has succeeded on, change no table entry; and a step lowers a
\* reference count by at most the number of programs of the count's
\* environment that the step removes, and a removed program never returns.
C35_DisposalPathsDecrementOnce ==
    /\ [](/\ \A p \in hist.programDestroyed :
                 /\ Tables(DestroyProgram(G, p)) = Tables(G)
                 /\ p \in DOMAIN progObjs => Tables(Program_destroy(S, p).g) = Tables(G)
          /\ \A e \in hist.envDestroyed :
                 /\ Tables(DestroyEnv(G, e)) = Tables(G)
                 /\ e \in DOMAIN envObjs => Tables(Env_destroy(S, e).g) = Tables(G))
    /\ [][/\ \A i \in DOMAIN functionRefs :
                 LET after == IF i \in DOMAIN functionRefs'
                              THEN functionRefs'[i].refCount ELSE 0
                 IN functionRefs[i].refCount - after
                        <= Cardinality({p \in (DOMAIN programs) \ (DOMAIN programs') :
                                           programs[p].envID = functionRefs[i].envID})
          /\ hist.programDestroyed \cap DOMAIN programs' = {}]_vars

\* the finalizer's destroyProgram has arrived for the first program after
\* its Program object was destroyed, while the second program of the
\* environment holds the reference count
C35_Witness ==
    /\ out.op = "destroyProgram"
    /\ out.err = "program not found"
    /\ DOMAIN progObjs = {1, 2}
    /\ progObjs[1].destroyed
    /\ ~progObjs[2].destroyed
    /\ DOMAIN programs = {2}
    /\ \E i \in DOMAIN functionRefs : functionRefs[i].refCount = 1

\* C36: a compile that has just stored its program (the last call that
\* returned is a compileExpr that succeeded) did so for an environment that
\* is in envs and not flagged destroyed.
C36_ProgramsOnlyForLiveEnvironments ==
    (out.op = "compileExpr" /\ out.err = NoError) =>
        /\ out.envID \in DOMAIN envs
        /\ ~envs[out.envID].destroyed

C38_InstantiatesAtMostOnce ==
    LET calls == {i \in DOMAIN inProgress : inProgress[i].op = "init"} IN
    /\ Cardinality({i \in calls : inProgress[i].instantiates}) <= 1
    /\ isInitialized =>
           /\ initPromise = "resolved"
           /\ \E i \in calls : inProgress[i].instantiates
    /\ \A i \in calls :
           /\ inProgress[i].path \in {"share", "return"} => ~inProgress[i].instantiates
           /\ inProgress[i].path = "create" <=> i = 1
           /\ inProgress[i].pc = "returned" => isInitialized
           /\ inProgress[i].pc = "thrown" => initPromise = "rejected"

\* four calls: the first instantiates, the second is made while the promise
\* is pending, both return, and two more made afterwards return at once
C38_Witness ==
    /\ Len(inProgress) = MaxInitCalls
    /\ isInitialized
    /\ inProgress[1].instantiates
    /\ inProgress[2].path = "share"
    /\ inProgress[3].path = "return"
    /\ \A i \in DOMAIN inProgress : inProgress[i].pc = "returned"
    /\ inProgress[4].caller = "Env.new"

\* a descriptor of the wire format: a primitive name, or a list or map
\* object with exactly its keys over descriptors
RECURSIVE WellFormed(_)
WellFormed(d) ==
    IF d.json = "string" THEN d.s \in PrimitiveNames
    ELSE /\ d.json = "object"
         /\ IsString(d, "kind")
         /\ \/ /\ d.kind.s = "list"
               /\ DOMAIN d = {"json", "kind", "elementType"}
               /\ WellFormed(d.elementType)
            \/ /\ d.kind.s = "map"
               /\ DOMAIN d = {"json", "kind", "keyType", "valueType"}
               /\ WellFormed(d.keyType)
               /\ WellFormed(d.valueType)

\* the kind of an object whose "kind" is a string
KindOf(d) == IF d.json = "object" /\ IsString(d, "kind") THEN d.kind.s ELSE "none"

\* C39 as stated: the descriptor reported for the type parsed from a
\* well-formed descriptor is that descriptor, and every other descriptor
\* parses to the dynamic type.
C39_TypeToJSONInvertsParseTypeDef ==
    out.op = "typeToJSON" =>
        IF WellFormed(out.typeDef) THEN out.json = out.typeDef
        ELSE out.type = Dyn

\* C39 amended: the descriptor reported for the type parsed from a
\* well-formed descriptor is that descriptor. Every other value parses to a
\* type whose reported descriptor is well-formed and parses to the same
\* type again. An object of kind list or map stays a list or a map, with
\* dyn for an element or value and string for a key that is missing or
\* neither a string nor an object. An object of no such kind parses as the
\* name under "type", or else under "name", when that is a string. An
\* unknown name and everything else parse to the dynamic type.
C39_RoundTripAndPermissiveFallback ==
    out.op = "typeToJSON" =>
        LET d == out.typeDef
            t == out.type
            named(key) == IF d[key].s \in PrimitiveNames THEN out.json = d[key]
                          ELSE t = Dyn
            part(key) == IsString(d, key) \/ IsMap(d, key)
        IN
        /\ WellFormed(d) => out.json = d
        /\ WellFormed(out.json)
        /\ parseTypeDef(out.json) = t
        /\ KindOf(d) = "list" =>
               /\ t.typeKind = "ListType"
               /\ ~part("elementType") => t.elemType = Dyn
        /\ KindOf(d) = "map" =>
               /\ t.typeKind = "MapType"
               /\ ~part("keyType") => t.keyType = Primitive("STRING")
               /\ ~part("valueType") => t.valueType = Dyn
        /\ KindOf(d) \notin {"list", "map"} /\ ~WellFormed(d) =>
               IF d.json # "object" THEN t = Dyn
               ELSE IF IsString(d, "type") THEN named("type")
               ELSE IF IsString(d, "name") THEN named("name")
               ELSE t = Dyn

\* a list of maps from string to timestamp has been parsed and reported
\* back as itself
C39_Witness ==
    /\ out.op = "typeToJSON"
    /\ out.typeDef = ListDescriptor(MapDescriptor(Str("string"), Str("timestamp")))
    /\ out.type = NewListType(NewMapType(Primitive("STRING"), WellKnown("TIMESTAMP")))
    /\ out.json = out.typeDef

====
